---- MODULE Spec2Model ----
(***************************************************************************)
(* uniondiff: the directory difference upper = merged - lower.             *)
(*                                                                         *)
(* The model follows src/uniondiff: the two source adapters (filelib.py,   *)
(* filelib_tar.py), the differ engine (differ.py) and the overlay and AUFS *)
(* sinks (output_overlay.py, output_aufs.py).  Paths and names are         *)
(* strings, as in the code; a run of Differ.diff() is a sequence of steps  *)
(* over an explicit call stack, one step per part of a function body.      *)
(***************************************************************************)
EXTENDS Integers, Sequences, FiniteSets, TLC

(***************************************************************************)
(* stat module constants (decimal; the octal value is in the comment).     *)
(***************************************************************************)
S_IFIFO == 4096
\* 0o010000
S_IFCHR == 8192
\* 0o020000
S_IFDIR == 16384
\* 0o040000
S_IFBLK == 24576
\* 0o060000
S_IFREG == 32768
\* 0o100000
S_IFLNK == 40960
\* 0o120000
PermBits == 4096
\* stat.S_IMODE keeps mode & 0o7777, stat.S_IFMT keeps mode & 0o170000

S_IMODE(mode) == mode % PermBits

S_IFMT(mode) == (mode \div PermBits) * PermBits

S_ISREG(mode) == S_IFMT(mode) = S_IFREG

S_ISLNK(mode) == S_IFMT(mode) = S_IFLNK

S_ISCHR(mode) == S_IFMT(mode) = S_IFCHR

S_ISBLK(mode) == S_IFMT(mode) = S_IFBLK

(***************************************************************************)
(* StatInfo (filelib.py) and the differ's sentinel stat.                   *)
(***************************************************************************)
StatInfo(mode, uid, gid, size, mtime, rdev) ==
    [mode |-> mode, uid |-> uid, gid |-> gid, size |-> size,
     mtime |-> mtime, rdev |-> rdev]

FAILED_MODE == 511
\* 0o777

FAILED_STAT == StatInfo(FAILED_MODE, 0, 0, 0, 0, 0)

(***************************************************************************)
(* posixpath, on strings.                                                  *)
(***************************************************************************)
CharAt(s, i) == SubSeq(s, i, i)

StartsWith(s, prefix) ==
    /\ Len(s) >= Len(prefix)
    /\ SubSeq(s, 1, Len(prefix)) = prefix

EndsWith(s, suffix) ==
    /\ Len(s) >= Len(suffix)
    /\ SubSeq(s, Len(s) - Len(suffix) + 1, Len(s)) = suffix

\* str.rfind("/") + 1: the length of the prefix that ends with the last "/"
RECURSIVE RFindSlash(_, _)
RFindSlash(s, i) ==
    IF i = 0 THEN 0
    ELSE IF CharAt(s, i) = "/" THEN i
    ELSE RFindSlash(s, i - 1)

RECURSIVE RStripSlash(_)
RStripSlash(s) ==
    IF Len(s) > 0 /\ CharAt(s, Len(s)) = "/"
    THEN RStripSlash(SubSeq(s, 1, Len(s) - 1))
    ELSE s

AllSlashes(s) == \A i \in 1..Len(s) : CharAt(s, i) = "/"

\* posixpath.join(a, b)
posix_join(a, b) ==
    IF StartsWith(b, "/") THEN b
    ELSE IF a = "" \/ EndsWith(a, "/") THEN a \o b
    ELSE a \o "/" \o b

\* posixpath.split(p) = <<head, tail>>
posix_split(p) ==
    LET i == RFindSlash(p, Len(p))
        head == SubSeq(p, 1, i)
        tail == SubSeq(p, i + 1, Len(p))
    IN  <<IF head # "" /\ ~AllSlashes(head) THEN RStripSlash(head) ELSE head,
          tail>>

\* posixpath.basename(p)
posix_basename(p) == SubSeq(p, RFindSlash(p, Len(p)) + 1, Len(p))

\* str.split("/")
RECURSIVE SplitSlash(_, _, _)
SplitSlash(s, i, cur) ==
    IF i > Len(s) THEN <<cur>>
    ELSE IF CharAt(s, i) = "/" THEN <<cur>> \o SplitSlash(s, i + 1, "")
    ELSE SplitSlash(s, i + 1, cur \o CharAt(s, i))

\* the component loop of posixpath.normpath
RECURSIVE NormComps(_, _, _, _)
NormComps(comps, i, new_comps, initial_slashes) ==
    IF i > Len(comps) THEN new_comps
    ELSE LET comp == comps[i]
             n == Len(new_comps)
         IN  IF comp = "" \/ comp = "."
             THEN NormComps(comps, i + 1, new_comps, initial_slashes)
             ELSE IF \/ comp # ".."
                     \/ (initial_slashes = 0 /\ n = 0)
                     \/ (n > 0 /\ new_comps[n] = "..")
             THEN NormComps(comps, i + 1, Append(new_comps, comp), initial_slashes)
             ELSE IF n > 0
             THEN NormComps(comps, i + 1, SubSeq(new_comps, 1, n - 1), initial_slashes)
             ELSE NormComps(comps, i + 1, new_comps, initial_slashes)

RECURSIVE JoinSlash(_, _)
JoinSlash(comps, i) ==
    IF i > Len(comps) THEN ""
    ELSE IF i = Len(comps) THEN comps[i]
    ELSE comps[i] \o "/" \o JoinSlash(comps, i + 1)

\* posixpath.normpath(path)
posix_norm(path) ==
    IF path = "" THEN "."
    ELSE LET initial_slashes ==
                 IF ~StartsWith(path, "/") THEN 0
                 ELSE IF StartsWith(path, "//") /\ ~StartsWith(path, "///") THEN 2
                 ELSE 1
             comps == NormComps(SplitSlash(path, 1, ""), 1, <<>>, initial_slashes)
             joined == JoinSlash(comps, 1)
             full == IF initial_slashes = 2 THEN "//" \o joined
                     ELSE IF initial_slashes = 1 THEN "/" \o joined
                     ELSE joined
         IN  IF full = "" THEN "." ELSE full

(***************************************************************************)
(* tarfile: member types and TarInfo.  An entry of a source tree, of a tar *)
(* archive or of a live file system, is one TarInfo-shaped record; `data`  *)
(* holds a regular file's bytes.                                           *)
(***************************************************************************)
REGTYPE == "0"

LNKTYPE == "1"

SYMTYPE == "2"

CHRTYPE == "3"

BLKTYPE == "4"

DIRTYPE == "5"

FIFOTYPE == "6"

DefaultPerm == 420
\* 0o644, the mode of a fresh tarfile.TarInfo()

TarInfo(name, type, mode, uid, mtime, linkname, devminor, data) ==
    [name |-> name, type |-> type, mode |-> mode, uid |-> uid, gid |-> uid,
     size |-> Len(data), mtime |-> mtime, linkname |-> linkname,
     devmajor |-> 0, devminor |-> devminor, data |-> data]

\* TarFileLoader.MISSING_DIRECTORY_TARINFO = TarInfo(): a fresh TarInfo is a
\* regular-file member named "" with mode 0o644
MISSING_DIRECTORY_TARINFO == TarInfo("", REGTYPE, DefaultPerm, 0, 0, "", 0, "")

\* TarInfo.isdir()
TarIsDir(ti) == ti.type = DIRTYPE

\* TarInfo.isfile()
TarIsFile(ti) == ti.type = REGTYPE

\* filelib_tar._norm_name
NormName(name) == posix_norm(posix_join("/", name))

(***************************************************************************)
(* TarFileLoader.__init__: the index of an archive.  info maps a           *)
(* normalized path to its member, children maps a directory path to the    *)
(* list of (filename, member) pairs appended for it.                       *)
(***************************************************************************)
EmptyLoader == [adapter |-> "tar", info |-> <<>>, children |-> <<>>]

ChildrenOf(ld, path) ==
    IF path \in DOMAIN ld.children THEN ld.children[path] ELSE <<>>

AppendChild(ld, parent_path, filename, ti) ==
    [ld EXCEPT !.children =
        (parent_path :> Append(ChildrenOf(ld, parent_path),
                               [name |-> filename, ti |-> ti])) @@ @]

SetInfo(ld, path, ti) == [ld EXCEPT !.info = (path :> ti) @@ @]

\* the while loop of TarFileLoader.__init__ for one member
RECURSIVE LoaderWalkUp(_, _, _, _)
LoaderWalkUp(ld, parent_path, filename, ti) ==
    IF filename = "" THEN ld
    ELSE LET ld1 == AppendChild(ld, parent_path, filename, ti)
         IN  IF parent_path \in DOMAIN ld1.info THEN ld1
             ELSE LET ld2 == SetInfo(ld1, parent_path, MISSING_DIRECTORY_TARINFO)
                      sp == posix_split(parent_path)
                  IN  LoaderWalkUp(ld2, sp[1], sp[2], ti)

\* the body of the for loop of TarFileLoader.__init__
LoaderAddMember(ld, ti) ==
    LET path == NormName(ti.name)
        sp == posix_split(path)
    IN  LoaderWalkUp(SetInfo(ld, path, ti), sp[1], sp[2], ti)

RECURSIVE LoaderFold(_, _, _)
LoaderFold(ld, members, i) ==
    IF i > Len(members) THEN ld
    ELSE LoaderFold(LoaderAddMember(ld, members[i]), members, i + 1)

TarFileLoader(members) == LoaderFold(EmptyLoader, members, 1)

(***************************************************************************)
(* The live file system seen through filelib.DirectoryManager: os.scandir  *)
(* lists every child of a directory once, with the child's own type.  A    *)
(* tree is given as its entries, a parent before its children.             *)
(***************************************************************************)
RECURSIVE LiveFold(_, _, _)
LiveFold(ld, entries, i) ==
    IF i > Len(entries) THEN ld
    ELSE LET e == entries[i]
             path == NormName(e.name)
             sp == posix_split(path)
             ld1 == SetInfo(ld, path, e)
         IN  LiveFold(IF sp[2] = "" THEN ld1
                      ELSE AppendChild(ld1, sp[1], sp[2], e),
                      entries, i + 1)

LiveTree(entries) ==
    LiveFold([adapter |-> "file", info |-> <<>>, children |-> <<>>], entries, 1)

(***************************************************************************)
(* stat of a handle.  A result is [ok, st]; ok = FALSE is an OSError.      *)
(***************************************************************************)
DevMinorRange == 256
\* osshim.makedev: major << 8 | minor

makedev(major, minor) == major * DevMinorRange + minor

\* filelib_tar._MODE_MAPPING.get(type); -1 stands for None
ModeMapping(type) ==
    CASE type = REGTYPE -> S_IFREG
      [] type = SYMTYPE -> S_IFLNK
      [] type = DIRTYPE -> S_IFDIR
      [] type = FIFOTYPE -> S_IFIFO
      [] type = CHRTYPE -> S_IFCHR
      [] type = BLKTYPE -> S_IFBLK
      [] OTHER -> -1

\* TarManagerBase.stat
TarStat(ti) ==
    IF ModeMapping(ti.type) = -1
    THEN [ok |-> FALSE, st |-> FAILED_STAT]
    ELSE [ok |-> TRUE,
          st |-> StatInfo(ModeMapping(ti.type) + S_IMODE(ti.mode), ti.uid, ti.gid,
                          ti.size, ti.mtime, makedev(ti.devmajor, ti.devminor))]

\* ManagerBase.stat: os.lstat / os.fstat of a file system object
LiveStat(e) ==
    [ok |-> TRUE,
     st |-> StatInfo(ModeMapping(e.type) + S_IMODE(e.mode), e.uid, e.gid,
                     e.size, e.mtime, makedev(e.devmajor, e.devminor))]

(***************************************************************************)
(* DifferOptions.  NoneId stands for None in output_uid / output_gid.      *)
(***************************************************************************)
NoneId == -1

DifferOptions(output_uid, output_gid, scrub_mtime, in_strict, out_strict) ==
    [output_uid |-> output_uid, output_gid |-> output_gid,
     scrub_mtime |-> scrub_mtime, input_error_strict |-> in_strict,
     output_error_strict |-> out_strict]

\* a filter that hands the stat on as it is
stats_filter_keep(opts, x) == x

\* DifferOptions.stats_filter
stats_filter(opts, x) ==
    [x EXCEPT !.uid = IF opts.output_uid # NoneId THEN opts.output_uid ELSE x.uid,
              !.gid = IF opts.output_gid # NoneId THEN opts.output_gid ELSE x.gid,
              !.mtime = IF opts.scrub_mtime THEN 0 ELSE x.mtime]

\* a comparison that also looks at the modification time
stats_differ_mtime(opts, x0, y0) ==
    LET x == stats_filter(opts, x0)
        y == stats_filter(opts, y0)
    IN  x # y

\* DifferOptions.stats_differ
stats_differ(opts, x0, y0) ==
    LET x == stats_filter(opts, x0)
        y == stats_filter(opts, y0)
    IN  IF x.uid # y.uid THEN TRUE
        ELSE IF x.gid # y.gid THEN TRUE
        ELSE IF x.mode # y.mode THEN TRUE
        ELSE IF (S_ISREG(x.mode) \/ S_ISLNK(x.mode)) /\ x.size # y.size THEN TRUE
        ELSE IF (S_ISCHR(x.mode) \/ S_ISBLK(x.mode)) /\ x.rdev # y.rdev THEN TRUE
        ELSE FALSE

(***************************************************************************)
(* DirEntryType and _dir_entry_type.                                       *)
(***************************************************************************)
DIRECTORY == "DIRECTORY"

REGULAR_FILE == "REGULAR_FILE"

OTHER_TYPE == "OTHER"

NoType == "None"

dir_entry_type(dir_entry) ==
    IF TarIsDir(dir_entry.ti) THEN DIRECTORY
    ELSE IF TarIsFile(dir_entry.ti) THEN REGULAR_FILE
    ELSE OTHER_TYPE

(***************************************************************************)
(* lower_map: a Python dict name -> DirEntryType, kept as the sequence of  *)
(* its items in insertion order.                                           *)
(***************************************************************************)
DictHas(d, k) == \E i \in 1..Len(d) : d[i].name = k

DictGet(d, k) ==
    IF DictHas(d, k)
    THEN (CHOOSE e \in {d[i] : i \in 1..Len(d)} : e.name = k).type
    ELSE NoType

\* d[k] = v: a new key goes last, an old key keeps its place
DictSet(d, k, v) ==
    IF DictHas(d, k)
    THEN [i \in 1..Len(d) |-> IF d[i].name = k THEN [name |-> k, type |-> v] ELSE d[i]]
    ELSE Append(d, [name |-> k, type |-> v])

\* a pop that leaves the dict as it is
DictPop_keep(d, k) == d

\* d.pop(k, None): the dict without k
DictPop(d, k) == SelectSeq(d, LAMBDA e : e.name # k)

\* {dir_entry.name: _dir_entry_type(dir_entry) for dir_entry in lower}
RECURSIVE LowerMap(_, _, _)
LowerMap(entries, i, d) ==
    IF i > Len(entries) THEN d
    ELSE LowerMap(entries, i + 1,
                  DictSet(d, entries[i].name, dir_entry_type(entries[i])))

(***************************************************************************)
(* State of one Differ and its surroundings.                               *)
(***************************************************************************)
VARIABLES
    merged_dir,     \* Differ.merged_dir: the merged source, as its adapter reads it
    lower_dir,      \* Differ.lower_dir: the lower source
    sink,           \* Differ.output: "overlay" (DiffOutputOverlay) or "aufs" (DiffOutputAufs)
    options,        \* Differ.options
    bad_in,         \* the input operations that fail: [operand, path, verb]
    bad_out,        \* the paths at which the backend fails
    status,         \* "init", "running", "raising", "returned", "raised"
    exc,            \* the exception diff() raises
    frames,         \* the call stack below diff(), innermost last
    dir_pending,    \* Differ._dir_pending
    calls,          \* the calls made on the sink, in order
    backend,        \* the calls that reached the backend, in order
    log,            \* the input and output errors handled, in order
    handles,        \* the live handles entered so far: _entrances, fd, _scanner
    oslog,          \* the OS resources opened and closed, in order
    run,            \* 1 for the first Differ, 2 for the one with the operands swapped
    prev_calls      \* the sink calls of the first Differ, once it returned

vars == <<merged_dir, lower_dir, sink, options, bad_in, bad_out, status, exc,
          frames, dir_pending, calls, backend, log, handles, oslog, run,
          prev_calls>>

\* what a run does not change
env == <<merged_dir, lower_dir, sink, options, bad_in, bad_out, run, prev_calls>>

OPERAND_MERGED == "merged"

OPERAND_LOWER == "lower"

Source(operand) == IF operand = OPERAND_MERGED THEN merged_dir ELSE lower_dir

\* whether the environment makes this input operation fail
Fails(operand, path, verb) ==
    [operand |-> operand, path |-> path, verb |-> verb] \in bad_in

(***************************************************************************)
(* Sink calls and the two forwarding sinks.                                *)
(***************************************************************************)
NoStat == StatInfo(0, 0, 0, 0, 0, 0)

Call(op, path, st, data, linkname) ==
    [op |-> op, path |-> path, st |-> st, data |-> data, linkname |-> linkname]

WhiteoutPerm == 292
\* 0o444

\* a sink method's effect: raised (UnionDiffOutputException) or the backend call
Forward(call) == [raised |-> FALSE, out |-> <<call>>]

Refuse == [raised |-> TRUE, out |-> <<>>]

\* DiffOutputOverlay.delete_marker
OverlayDeleteMarker(path) ==
    Forward(Call("write_other", path,
                 StatInfo(S_IFCHR + WhiteoutPerm, 0, 0, 0, 0, 0), "", ""))

\* an overlay sink that forwards every write_other
OverlayWriteOther_forward(call) == Forward(call)

\* DiffOutputOverlay.write_other
OverlayWriteOther(call) ==
    IF S_ISCHR(call.st.mode) /\ call.st.rdev = 0 THEN Refuse ELSE Forward(call)

WHITEOUT_PREFIX == ".wh."

\* DiffOutputAufs.is_whiteout_path
is_whiteout_path(path) == StartsWith(posix_basename(path), WHITEOUT_PREFIX)

\* DiffOutputAufs.delete_marker
AufsDeleteMarker(path) ==
    LET sp == posix_split(path)
    IN  Forward(Call("write_file", posix_join(sp[1], WHITEOUT_PREFIX \o sp[2]),
                     StatInfo(S_IFREG + WhiteoutPerm, 0, 0, 0, 0, 0), "", ""))

\* an AUFS sink that forwards every write_file
AufsWriteFile_forward(call) == Forward(call)

\* DiffOutputAufs.write_file
AufsWriteFile(call) ==
    IF is_whiteout_path(call.path) THEN Refuse ELSE Forward(call)

\* the method of the sink that a call of the differ runs
SinkCall(kind, call) ==
    IF kind = "overlay"
    THEN CASE call.op = "delete_marker" -> OverlayDeleteMarker(call.path)
           [] call.op = "write_other" -> OverlayWriteOther(call)
           [] OTHER -> Forward(call)
    ELSE CASE call.op = "delete_marker" -> AufsDeleteMarker(call.path)
           [] call.op = "write_file" -> AufsWriteFile(call)
           [] OTHER -> Forward(call)

(***************************************************************************)
(* The call stack.  A frame is one call of a _new_stack method; its stack  *)
(* is the ExitStack that _new_stack gives the call.                        *)
(***************************************************************************)
Frame(fn, pc, archive_path, merged, lower) ==
    [fn |-> fn, pc |-> pc, archive_path |-> archive_path, merged |-> merged,
     lower |-> lower, entries |-> <<>>, i |-> 1, lower_map |-> <<>>,
     stack |-> <<>>]

Top == frames[Len(frames)]

Running(fn, pc) ==
    /\ status = "running"
    /\ frames # <<>>
    /\ Top.fn = fn
    /\ Top.pc = pc

ReplaceTop(f) == [frames EXCEPT ![Len(frames)] = f]

(***************************************************************************)
(* The differ's state threaded through the body of one step: err is the    *)
(* exception that is propagating ("" if none), ioerr says that an IOError  *)
(* was raised inside the try block being run, stack is self._cur_stack.    *)
(***************************************************************************)
CurOut ==
    [calls |-> calls, backend |-> backend, pending |-> dir_pending,
     log |-> log, err |-> "", ioerr |-> FALSE, handles |-> handles,
     oslog |-> oslog, stack |-> IF frames = <<>> THEN <<>> ELSE Top.stack]

\* an error handled by _input_error or _output_error: the message's operand,
\* path and verb, and the number of sink calls made so far
LogEntry(kind, operand, path, verb, at) ==
    [kind |-> kind, operand |-> operand, path |-> path, verb |-> verb, at |-> at]

\* Differ._input_error, called from an except clause
input_error(o, operand, path, verb) ==
    [o EXCEPT !.log = Append(@, LogEntry("input", operand, path, verb, Len(o.calls))),
              !.ioerr = FALSE,
              !.err = IF options.input_error_strict
                      THEN "UnionDiffInputException" ELSE @]

\* an _output_error that only ever logs
output_error_lax(o, path, verb) ==
    [o EXCEPT !.log = Append(@, LogEntry("output", "", path, verb, Len(o.calls)))]

\* Differ._output_error, called from an except clause
output_error(o, path, verb) ==
    [o EXCEPT !.log = Append(@, LogEntry("output", "", path, verb, Len(o.calls))),
              !.err = IF options.output_error_strict
                      THEN "UnionDiffOutputException" ELSE @]

\* try: self.output.<op>(...) except IOErrors: self._output_error(err_path, verb)
\* src_fails: reading the reader handed to the sink fails
\* `by` is the position in `calls` of the sink call that made the backend call
BackendCall(c, by) ==
    [op |-> c.op, path |-> c.path, st |-> c.st, data |-> c.data,
     linkname |-> c.linkname, by |-> by]

Emit(o, call, src_fails, err_path, verb) ==
    LET r == SinkCall(sink, call)
        failed == r.out # <<>> /\ (src_fails \/ r.out[1].path \in bad_out)
        o1 == [o EXCEPT !.calls = Append(@, call),
                        !.backend = @ \o [i \in 1..Len(r.out) |->
                                             BackendCall(r.out[i], Len(o.calls) + 1)]]
    IN  IF r.raised \/ failed THEN output_error(o1, err_path, verb) ELSE o1

\* Differ._flush_pending
RECURSIVE FlushLoop(_, _)
FlushLoop(o, i) ==
    IF i > Len(o.pending) THEN [o EXCEPT !.pending = <<>>]
    ELSE LET p == o.pending[i]
             o1 == Emit(o, Call("write_dir", p[1], stats_filter(options, p[2]), "", ""),
                        FALSE, p[1], "creating dir")
         IN  IF o1.err # "" THEN o1 ELSE FlushLoop(o1, i + 1)

\* a flush that writes the pending directories and keeps them pending
flush_pending_keep(o) == [FlushLoop(o, 1) EXCEPT !.pending = o.pending]

\* a flush that forgets the pending directories instead of writing them
flush_pending_forget(o) == [o EXCEPT !.pending = <<>>]

flush_pending(o) == FlushLoop(o, 1)

(***************************************************************************)
(* Handles.  A handle is named by its operand and its path in the source   *)
(* ("/" is the root).  The adapter "file" is filelib with SUPPORTS_DIR_FD  *)
(* (descriptors opened relative to the parent's), "path" is filelib        *)
(* without it, "tar" is filelib_tar reading the index of TarFileLoader.    *)
(***************************************************************************)
Info(operand, path) == Source(operand).info[path]

Exists(operand, path) == path \in DOMAIN Source(operand).info

Adapter(operand) == Source(operand).adapter

\* ManagerBase.__init__
NewHandle == [entrances |-> 0, fd |-> FALSE, scanner |-> FALSE]

HandleOf(o, operand, path) ==
    IF <<operand, path>> \in DOMAIN o.handles
    THEN o.handles[<<operand, path>>] ELSE NewHandle

SetHandle(o, operand, path, h) ==
    [o EXCEPT !.handles = (<<operand, path>> :> h) @@ @]

\* an OS resource: the fd or the scandir iterator of a handle, or the fd that
\* an owning reader opened (n tells the readers of one file apart)
Resource(kind, operand, path, n) ==
    [kind |-> kind, operand |-> operand, path |-> path, n |-> n]

OsOpen(o, res) == [o EXCEPT !.oslog = Append(@, [ev |-> "open", res |-> res])]

OsClose(o, res) == [o EXCEPT !.oslog = Append(@, [ev |-> "close", res |-> res])]

IOError(o) == [o EXCEPT !.ioerr = TRUE]

Push(o, kind, operand, path, owns, n) ==
    [o EXCEPT !.stack = Append(@, [kind |-> kind, operand |-> operand,
                                   path |-> path, owns |-> owns, n |-> n,
                                   offset |-> 0])]

\* a handle that opens a descriptor every time it is entered
Enter_reopen(o, operand, path) ==
    IF o.ioerr THEN o
    ELSE IF Adapter(operand) = "tar" THEN Push(o, "handle", operand, path, FALSE, 0)
    ELSE LET h == HandleOf(o, operand, path)
             opens == Adapter(operand) = "file"
         IN  IF opens /\ Fails(operand, path, "open") THEN IOError(o)
             ELSE LET h1 == [h EXCEPT !.entrances = @ + 1,
                                      !.fd = IF opens THEN TRUE ELSE @]
                      o1 == IF opens THEN OsOpen(o, Resource("fd", operand, path, 0))
                            ELSE o
                  IN  Push(SetHandle(o1, operand, path, h1),
                           "handle", operand, path, FALSE, 0)

\* stack.enter_context(handle): ManagerBase.__enter__ and _open
Enter(o, operand, path) ==
    IF o.ioerr THEN o
    ELSE IF Adapter(operand) = "tar" THEN Push(o, "handle", operand, path, FALSE, 0)
    ELSE LET h == HandleOf(o, operand, path)
             opens == h.entrances = 0 /\ Adapter(operand) = "file"
         IN  IF opens /\ Fails(operand, path, "open") THEN IOError(o)
             ELSE LET h1 == [h EXCEPT !.entrances = @ + 1,
                                      !.fd = IF opens THEN TRUE ELSE @]
                      o1 == IF opens THEN OsOpen(o, Resource("fd", operand, path, 0))
                            ELSE o
                  IN  Push(SetHandle(o1, operand, path, h1),
                           "handle", operand, path, FALSE, 0)

\* the stat property of a handle
HandleStat(operand, path) ==
    IF Adapter(operand) = "tar" THEN TarStat(Info(operand, path))
    ELSE IF Fails(operand, path, "stat") THEN [ok |-> FALSE, st |-> FAILED_STAT]
    ELSE LiveStat(Info(operand, path))

\* x = handle.stat inside a try block
Stat(o, operand, path) ==
    IF o.ioerr THEN o
    ELSE IF HandleStat(operand, path).ok THEN o ELSE IOError(o)

\* list(handle): DirectoryManager.__iter__ / TarDirectoryManager.__iter__
ListDir(o, operand, path) ==
    IF o.ioerr \/ Adapter(operand) = "tar" THEN o
    ELSE LET h == HandleOf(o, operand, path)
             res == Resource("scanner", operand, path, 0)
             o1 == IF h.scanner THEN OsClose(o, res) ELSE o
         IN  IF Fails(operand, path, "list")
             THEN IOError(SetHandle(o1, operand, path, [h EXCEPT !.scanner = FALSE]))
             ELSE SetHandle(OsOpen(o1, res), operand, path, [h EXCEPT !.scanner = TRUE])

Listing(operand, path) == ChildrenOf(Source(operand), path)

NoReader == "<None>"

\* what reader() of a file handle gives: "ok", or "none" when
\* TarFile.extractfile returns None for a member that is no regular file
ReaderKind(operand, path) ==
    IF Adapter(operand) = "tar" /\ ~TarIsFile(Info(operand, path))
    THEN "none" ELSE "ok"

\* FileManagerReader.__init__: self.offset = 0 (read() uses os.pread at
\* self.offset, so the position of a shared descriptor does not matter); an
\* archive member is read through a new ExFileObject
reader_offset(o, operand, path) == 0

\* the reader made: the context entered last, at its first offset
NewReader(o, offset) ==
    [o EXCEPT !.stack[Len(o.stack)].offset = offset]

\* stack.enter_context(handle.reader()): FileManager.reader, TarFileManager.reader
Reader(o, operand, path) ==
    LET offset == reader_offset(o, operand, path)
    IN  IF o.ioerr THEN o
        ELSE IF Adapter(operand) = "tar"
        THEN NewReader(Push(o, "reader", operand, path, FALSE, 0), offset)
        ELSE IF HandleOf(o, operand, path).fd
        THEN NewReader(Push(o, "reader", operand, path, FALSE, 0), offset)
        ELSE IF Fails(operand, path, "reader") THEN IOError(o)
        ELSE NewReader(Push(OsOpen(o, Resource("reader", operand, path, Len(o.oslog))),
                            "reader", operand, path, TRUE, Len(o.oslog)), offset)

FileData(operand, path) ==
    IF ReaderKind(operand, path) = "none" THEN NoReader
    ELSE Info(operand, path).data

\* reader.read(n) at an offset
ReadChunk(data, offset, n) ==
    SubSeq(data, offset + 1, IF offset + n < Len(data) THEN offset + n ELSE Len(data))

\* what reading the reader entered last to EOF yields
ReadToEOF(o, data) ==
    IF data = NoReader THEN NoReader
    ELSE ReadChunk(data, o.stack[Len(o.stack)].offset, Len(data))

\* self.offset += len(result) of the readers of one operand in this call
Advance(o, operand, offset) ==
    [o EXCEPT !.stack = [i \in 1..Len(@) |->
                            IF @[i].kind = "reader" /\ @[i].operand = operand
                            THEN [@[i] EXCEPT !.offset = offset] ELSE @[i]]]

\* x = handle.linkname if S_ISLNK(stat.mode) else "" inside a try block
Linkname(o, operand, path) ==
    IF o.ioerr THEN o
    ELSE IF ~S_ISLNK(HandleStat(operand, path).st.mode) THEN o
    ELSE IF Adapter(operand) # "tar" /\ Fails(operand, path, "readlink") THEN IOError(o)
    ELSE o

LinknameOf(operand, path) ==
    IF S_ISLNK(HandleStat(operand, path).st.mode)
    THEN Info(operand, path).linkname ELSE ""

\* DirectoryManager.child_dir/child_file/child_path: the child's path
ChildPath(path, name) == posix_join(path, name)

\* an exit that releases nothing
ExitOne_keep(o, e) == o

\* ManagerBase.__exit__ and close, FileManagerReader.__exit__
ExitOne(o, e) ==
    IF e.kind = "reader"
    THEN IF e.owns THEN OsClose(o, Resource("reader", e.operand, e.path, e.n)) ELSE o
    ELSE IF Adapter(e.operand) = "tar" THEN o
    ELSE LET h == HandleOf(o, e.operand, e.path)
             last == h.entrances = 1
             o1 == IF last /\ h.scanner
                   THEN OsClose(o, Resource("scanner", e.operand, e.path, 0)) ELSE o
             o2 == IF last /\ h.fd
                   THEN OsClose(o1, Resource("fd", e.operand, e.path, 0)) ELSE o1
         IN  SetHandle(o2, e.operand, e.path,
                       [entrances |-> h.entrances - 1,
                        fd |-> IF last THEN FALSE ELSE h.fd,
                        scanner |-> IF last THEN FALSE ELSE h.scanner])

\* an ExitStack that exits its contexts in the order they were entered
RECURSIVE ExitFifoLoop(_, _, _)
ExitFifoLoop(o, k, n) ==
    IF k > n THEN [o EXCEPT !.stack = <<>>]
    ELSE ExitFifoLoop(ExitOne(o, o.stack[k]), k + 1, n)

ExitStackClose_fifo(o, i) == ExitFifoLoop(o, 1, i)

\* ExitStack.__exit__ of _new_stack: the contexts entered, innermost first
RECURSIVE ExitStackClose(_, _)
ExitStackClose(o, i) ==
    IF i = 0 THEN [o EXCEPT !.stack = <<>>]
    ELSE ExitStackClose(ExitOne(o, o.stack[i]), i - 1)

\* the end of a step: its state, and the call stack it leaves unless it raised
Commit(o, f, callee) ==
    /\ calls' = o.calls
    /\ backend' = o.backend
    /\ dir_pending' = o.pending
    /\ log' = o.log
    /\ handles' = o.handles
    /\ oslog' = o.oslog
    /\ status' = IF o.err # "" THEN "raising" ELSE status
    /\ exc' = o.err
    /\ frames' = IF o.err # "" THEN ReplaceTop([Top EXCEPT !.stack = o.stack])
                 ELSE ReplaceTop([f EXCEPT !.stack = o.stack]) \o callee
    /\ UNCHANGED env

Raise(o, e) == [o EXCEPT !.err = e]

(***************************************************************************)
(* Differ.diff                                                             *)
(***************************************************************************)
\* a diff() that reports a source it cannot open as a per-entry input error
OpenDir_input(o, operand) ==
    IF o.err # "" THEN o
    ELSE IF ~Exists(operand, "/") THEN Raise(o, "UnionDiffInputException")
    ELSE LET o1 == Enter(o, operand, "/")
         IN  IF o1.ioerr THEN Raise([o1 EXCEPT !.ioerr = FALSE], "UnionDiffInputException")
             ELSE o1

\* stack.enter_context(_open_dir(path)): the root of an archive without
\* members is not in the index (FileNotFoundError)
OpenDir(o, operand) ==
    IF o.err # "" THEN o
    ELSE IF ~Exists(operand, "/") THEN Raise(o, "UnionDiffException")
    ELSE LET o1 == Enter(o, operand, "/")
         IN  IF o1.ioerr THEN Raise([o1 EXCEPT !.ioerr = FALSE], "UnionDiffException")
             ELSE o1

Diff ==
    /\ status = "init"
    /\ LET o == OpenDir(OpenDir(CurOut, OPERAND_MERGED), OPERAND_LOWER)
           f == [Frame("diff", "exit", ".", "/", "/") EXCEPT !.stack = o.stack]
       IN  /\ handles' = o.handles
           /\ oslog' = o.oslog
           /\ exc' = o.err
           /\ status' = IF o.err # "" THEN "raising" ELSE "running"
           /\ frames' = IF o.err # "" THEN <<f>>
                        ELSE <<f, Frame("diff_dirs", "list", ".", "/", "/")>>
    /\ UNCHANGED <<env, dir_pending, calls, backend, log>>

(***************************************************************************)
(* Differ._diff_dirs                                                       *)
(***************************************************************************)
\* lines 226-257: list both sides, push the directory, flush if its stat differs
DiffDirsList ==
    /\ Running("diff_dirs", "list")
    /\ LET f == Top
           l1 == Enter(CurOut, OPERAND_LOWER, f.lower)
           l2 == ListDir(l1, OPERAND_LOWER, f.lower)
           l3 == Stat(l2, OPERAND_LOWER, f.lower)
           lower_entries == IF l2.ioerr THEN <<>> ELSE Listing(OPERAND_LOWER, f.lower)
           lower_stat == IF l3.ioerr THEN FAILED_STAT
                         ELSE HandleStat(OPERAND_LOWER, f.lower).st
           l4 == IF l3.ioerr
                 THEN input_error(l3, OPERAND_LOWER, f.archive_path, "listing") ELSE l3
           m1 == Enter(l4, OPERAND_MERGED, f.merged)
           m2 == ListDir(m1, OPERAND_MERGED, f.merged)
           m3 == Stat(m2, OPERAND_MERGED, f.merged)
           merged_entries == IF m2.ioerr THEN <<>> ELSE Listing(OPERAND_MERGED, f.merged)
           merged_stat == IF m3.ioerr THEN FAILED_STAT
                          ELSE HandleStat(OPERAND_MERGED, f.merged).st
           m4 == IF m3.ioerr
                 THEN input_error(m3, OPERAND_MERGED, f.archive_path, "listing") ELSE m3
           o5 == [m4 EXCEPT !.pending = Append(@, <<f.archive_path, merged_stat>>)]
           o6 == IF stats_differ(options, merged_stat, lower_stat)
                 THEN flush_pending(o5) ELSE o5
       IN  Commit(IF l4.err # "" THEN l4 ELSE IF m4.err # "" THEN m4 ELSE o6,
                  [f EXCEPT !.pc = "loop", !.entries = merged_entries,
                            !.lower_map = LowerMap(lower_entries, 1, <<>>)],
                  <<>>)

\* the call that one merged entry leads to (lines 260-290)
ChildCall(f, dir_entry, lower_type) ==
    LET type == dir_entry_type(dir_entry)
        cpath == posix_join(f.archive_path, dir_entry.name)
        m == ChildPath(f.merged, dir_entry.name)
        l == ChildPath(f.lower, dir_entry.name)
    IN  IF type = DIRECTORY
        THEN IF lower_type # DIRECTORY
             THEN Frame("insert_dir", "list", cpath, m, "")
             ELSE Frame("diff_dirs", "list", cpath, m, l)
        ELSE IF type = REGULAR_FILE
        THEN IF lower_type # REGULAR_FILE
             THEN Frame("insert_file", "body", cpath, m, "")
             ELSE Frame("diff_files", "body", cpath, m, l)
        ELSE IF lower_type # OTHER_TYPE
             THEN Frame("insert_other", "body", cpath, m, "")
             ELSE Frame("diff_other", "body", cpath, m, l)

\* one iteration of the loop over merged_entries
DiffDirsEntry ==
    /\ Running("diff_dirs", "loop")
    /\ Top.i <= Len(Top.entries)
    /\ LET f == Top
           dir_entry == f.entries[f.i]
           lower_type == DictGet(f.lower_map, dir_entry.name)
       IN  Commit(CurOut,
                  [f EXCEPT !.i = @ + 1, !.lower_map = DictPop(@, dir_entry.name)],
                  <<ChildCall(f, dir_entry, lower_type)>>)

\* a differ that never marks a deletion
DiffDirsDelete_skip ==
    /\ Running("diff_dirs", "loop")
    /\ Top.i > Len(Top.entries)
    /\ Top.lower_map # <<>>
    /\ Commit(CurOut, [Top EXCEPT !.lower_map = Tail(@)], <<>>)

\* one iteration of the loop over the names left in lower_map (lines 292-297)
DiffDirsDelete ==
    /\ Running("diff_dirs", "loop")
    /\ Top.i > Len(Top.entries)
    /\ Top.lower_map # <<>>
    /\ LET f == Top
           name == f.lower_map[1].name
           o1 == flush_pending(CurOut)
           o2 == IF o1.err # "" THEN o1
                 ELSE Emit(o1, Call("delete_marker", posix_join(f.archive_path, name),
                                    NoStat, "", ""),
                           FALSE, f.archive_path, "creating delete marker")
       IN  Commit(o2, [f EXCEPT !.lower_map = Tail(@)], <<>>)

\* a _diff_dirs that leaves its entry on _dir_pending when it returns
DiffDirsEnd_keep ==
    /\ Running("diff_dirs", "loop")
    /\ Top.i > Len(Top.entries)
    /\ Top.lower_map = <<>>
    /\ Commit(CurOut, [Top EXCEPT !.pc = "exit"], <<>>)

\* a pop that removes nothing
pop_pending_none(pending) == pending

\* if self._dir_pending: self._dir_pending.pop()
pop_pending(pending) ==
    IF pending # <<>> THEN SubSeq(pending, 1, Len(pending) - 1) ELSE pending

\* lines 299-302: remove ourselves from _dir_pending if we are still there
DiffDirsEnd ==
    /\ Running("diff_dirs", "loop")
    /\ Top.i > Len(Top.entries)
    /\ Top.lower_map = <<>>
    /\ Commit([CurOut EXCEPT !.pending = pop_pending(@)],
              [Top EXCEPT !.pc = "exit"], <<>>)

(***************************************************************************)
(* Differ._insert_dir                                                      *)
(***************************************************************************)
\* lines 437-453: flush, enter, stat and list the directory, write it
InsertDirList ==
    /\ Running("insert_dir", "list")
    /\ LET f == Top
           o1 == flush_pending(CurOut)
           o2 == Enter(o1, OPERAND_MERGED, f.merged)
           o3 == Stat(o2, OPERAND_MERGED, f.merged)
           o4 == ListDir(o3, OPERAND_MERGED, f.merged)
           obj_stat == IF o3.ioerr THEN FAILED_STAT
                       ELSE HandleStat(OPERAND_MERGED, f.merged).st
           dir_entries == IF o4.ioerr THEN <<>> ELSE Listing(OPERAND_MERGED, f.merged)
           o5 == IF o4.ioerr
                 THEN input_error(o4, OPERAND_MERGED, f.archive_path, "listing") ELSE o4
           o6 == Emit(o5, Call("write_dir", f.archive_path,
                               stats_filter(options, obj_stat), "", ""),
                      FALSE, f.archive_path, "creating dir")
       IN  Commit(IF o1.err # "" THEN o1 ELSE IF o5.err # "" THEN o5 ELSE o6,
                  [f EXCEPT !.pc = "loop", !.entries = dir_entries], <<>>)

\* one iteration of the loop over dir_entries (lines 454-461)
InsertDirEntry ==
    /\ Running("insert_dir", "loop")
    /\ Top.i <= Len(Top.entries)
    /\ LET f == Top
           dir_entry == f.entries[f.i]
           cpath == posix_join(f.archive_path, dir_entry.name)
           m == ChildPath(f.merged, dir_entry.name)
       IN  Commit(CurOut, [f EXCEPT !.i = @ + 1],
                  << IF TarIsDir(dir_entry.ti) THEN Frame("insert_dir", "list", cpath, m, "")
                     ELSE IF TarIsFile(dir_entry.ti)
                          THEN Frame("insert_file", "body", cpath, m, "")
                          ELSE Frame("insert_other", "body", cpath, m, "") >>)

InsertDirEnd ==
    /\ Running("insert_dir", "loop")
    /\ Top.i > Len(Top.entries)
    /\ Commit(CurOut, [Top EXCEPT !.pc = "exit"], <<>>)

(***************************************************************************)
(* Differ._diff_files                                                      *)
(***************************************************************************)
CHUNK_SIZE == 65536

\* the while loop (lines 348-367) once both readers are there: "same",
\* "differs" (a break with differs = True), "merged_error" or "lower_error",
\* and the offsets that the two readers have reached
RECURSIVE ReadLoop(_, _, _, _, _)
ReadLoop(merged_data, lower_data, merged_fails, lower_fails, offset) ==
    IF merged_fails
    THEN [res |-> "merged_error", merged_offset |-> offset, lower_offset |-> offset]
    ELSE LET m == ReadChunk(merged_data, offset, CHUNK_SIZE)
             l == ReadChunk(lower_data, offset, CHUNK_SIZE)
         IN  IF lower_fails
             THEN [res |-> "lower_error", merged_offset |-> offset + Len(m),
                   lower_offset |-> offset]
             ELSE IF m # l
             THEN [res |-> "differs", merged_offset |-> offset + Len(m),
                   lower_offset |-> offset + Len(l)]
             ELSE IF m = ""
             THEN [res |-> "same", merged_offset |-> offset, lower_offset |-> offset]
             ELSE ReadLoop(merged_data, lower_data, merged_fails, lower_fails,
                           offset + Len(m))

\* lines 334-370, after the stats were found equal
CompareFiles(o, f) ==
    LET o1 == Reader(o, OPERAND_MERGED, f.merged)
        o2 == Reader(o1, OPERAND_LOWER, f.lower)
        o3 == IF o2.ioerr
              THEN input_error(o2, OPERAND_LOWER, f.archive_path, "opening") ELSE o2
        lower_bound == ~o2.ioerr
        loop == ReadLoop(FileData(OPERAND_MERGED, f.merged),
                         FileData(OPERAND_LOWER, f.lower),
                         Fails(OPERAND_MERGED, f.merged, "read"),
                         Fails(OPERAND_LOWER, f.lower, "read"),
                         o1.stack[Len(o1.stack)].offset)
        res == loop.res
        read == Advance(Advance(o3, OPERAND_MERGED, loop.merged_offset),
                        OPERAND_LOWER, loop.lower_offset)
    IN  IF o1.ioerr
        THEN [o |-> input_error(o1, OPERAND_MERGED, f.archive_path, "opening"),
              differs |-> FALSE]
        ELSE IF o3.err # "" THEN [o |-> o3, differs |-> FALSE]
        ELSE IF ReaderKind(OPERAND_MERGED, f.merged) = "none"
        THEN [o |-> Raise(o3, "AttributeError"), differs |-> FALSE]
        ELSE IF res = "merged_error"
        THEN [o |-> input_error(o3, OPERAND_MERGED, f.archive_path, "reading"),
              differs |-> FALSE]
        ELSE IF ~lower_bound
        THEN [o |-> Raise(o3, "UnboundLocalError"), differs |-> FALSE]
        ELSE IF ReaderKind(OPERAND_LOWER, f.lower) = "none"
        THEN [o |-> Raise(o3, "AttributeError"), differs |-> FALSE]
        ELSE IF res = "lower_error"
        THEN [o |-> input_error(Advance(o3, OPERAND_MERGED, loop.merged_offset),
                                OPERAND_LOWER, f.archive_path, "reading"),
              differs |-> TRUE]
        ELSE [o |-> read, differs |-> res = "differs"]

DiffFiles ==
    /\ Running("diff_files", "body")
    /\ LET f == Top
           m1 == Stat(Enter(CurOut, OPERAND_MERGED, f.merged), OPERAND_MERGED, f.merged)
           m2 == input_error(m1, OPERAND_MERGED, f.archive_path, "accessing")
           merged_stat == HandleStat(OPERAND_MERGED, f.merged).st
           l1 == Stat(Enter(m1, OPERAND_LOWER, f.lower), OPERAND_LOWER, f.lower)
           lower_stat == IF l1.ioerr THEN FAILED_STAT
                         ELSE HandleStat(OPERAND_LOWER, f.lower).st
           l2 == IF l1.ioerr
                 THEN input_error(l1, OPERAND_LOWER, f.archive_path, "accessing") ELSE l1
           cmp == CompareFiles(l2, f)
           insert == <<Frame("insert_file", "body", f.archive_path, f.merged, "")>>
           done == [f EXCEPT !.pc = "exit"]
       IN  IF m1.ioerr THEN Commit(m2, done, <<>>)
           ELSE IF l2.err # "" THEN Commit(l2, done, <<>>)
           ELSE IF stats_differ(options, merged_stat, lower_stat)
           THEN Commit(l2, done, insert)
           ELSE Commit(cmp.o, done, IF cmp.differs THEN insert ELSE <<>>)

(***************************************************************************)
(* Differ._insert_file                                                     *)
(***************************************************************************)
InsertFile ==
    /\ Running("insert_file", "body")
    /\ LET f == Top
           o1 == flush_pending(CurOut)
           o2 == Reader(Stat(Enter(o1, OPERAND_MERGED, f.merged),
                             OPERAND_MERGED, f.merged),
                        OPERAND_MERGED, f.merged)
           o3 == input_error(o2, OPERAND_MERGED, f.archive_path, "opening")
           obj_stat == HandleStat(OPERAND_MERGED, f.merged).st
           o4 == Emit(o2, Call("write_file", f.archive_path,
                               stats_filter(options, obj_stat),
                               ReadToEOF(o2, FileData(OPERAND_MERGED, f.merged)), ""),
                      ReaderKind(OPERAND_MERGED, f.merged) = "ok"
                          /\ Fails(OPERAND_MERGED, f.merged, "read"),
                      f.archive_path, "writing file")
       IN  Commit(IF o1.err # "" THEN o1 ELSE IF o2.ioerr THEN o3 ELSE o4,
                  [f EXCEPT !.pc = "exit"], <<>>)

(***************************************************************************)
(* Differ._diff_other                                                      *)
(***************************************************************************)
\* enter, stat and read the link of a special file inside one try block
Access(o, operand, path) ==
    Linkname(Stat(Enter(o, operand, path), operand, path), operand, path)

DiffOther ==
    /\ Running("diff_other", "body")
    /\ LET f == Top
           m1 == Access(CurOut, OPERAND_MERGED, f.merged)
           m2 == input_error(m1, OPERAND_MERGED, f.archive_path, "accessing")
           merged_stat == HandleStat(OPERAND_MERGED, f.merged).st
           merged_linkname == LinknameOf(OPERAND_MERGED, f.merged)
           l1 == Access(m1, OPERAND_LOWER, f.lower)
           lower_stat == IF Stat(Enter(m1, OPERAND_LOWER, f.lower),
                                 OPERAND_LOWER, f.lower).ioerr
                         THEN FAILED_STAT ELSE HandleStat(OPERAND_LOWER, f.lower).st
           lower_linkname == IF l1.ioerr THEN ""
                             ELSE LinknameOf(OPERAND_LOWER, f.lower)
           l2 == IF l1.ioerr
                 THEN input_error(l1, OPERAND_LOWER, f.archive_path, "accessing") ELSE l1
           same == IF stats_differ(options, merged_stat, lower_stat) THEN FALSE
                   ELSE IF ~S_ISLNK(merged_stat.mode) THEN TRUE
                   ELSE merged_linkname = lower_linkname
           done == [f EXCEPT !.pc = "exit"]
       IN  IF m1.ioerr THEN Commit(m2, done, <<>>)
           ELSE Commit(l2, done,
                       IF l2.err # "" \/ same THEN <<>>
                       ELSE <<Frame("insert_other", "body", f.archive_path, f.merged, "")>>)

(***************************************************************************)
(* Differ._insert_other                                                    *)
(***************************************************************************)
InsertOther ==
    /\ Running("insert_other", "body")
    /\ LET f == Top
           o1 == flush_pending(CurOut)
           o2 == Access(o1, OPERAND_MERGED, f.merged)
           o3 == input_error(o2, OPERAND_MERGED, f.archive_path, "accessing")
           obj_stat == HandleStat(OPERAND_MERGED, f.merged).st
           obj_linkname == LinknameOf(OPERAND_MERGED, f.merged)
           o4 == IF S_ISLNK(obj_stat.mode)
                 THEN Emit(o2, Call("write_symlink", f.archive_path,
                                    stats_filter(options, obj_stat), "", obj_linkname),
                           FALSE, f.archive_path, "writing symlink")
                 ELSE Emit(o2, Call("write_other", f.archive_path,
                                    stats_filter(options, obj_stat), "", ""),
                           FALSE, f.archive_path, "writing other")
       IN  Commit(IF o1.err # "" THEN o1 ELSE IF o2.ioerr THEN o3 ELSE o4,
                  [f EXCEPT !.pc = "exit"], <<>>)

(***************************************************************************)
(* _new_stack: leaving a call, normally or with an exception.              *)
(***************************************************************************)
\* the with block of _new_stack closes the call's ExitStack
Leave(next_status) ==
    LET o == ExitStackClose(CurOut, Len(Top.stack))
    IN  /\ handles' = o.handles
        /\ oslog' = o.oslog
        /\ frames' = SubSeq(frames, 1, Len(frames) - 1)
        /\ status' = IF Len(frames) = 1 THEN next_status ELSE status
        /\ UNCHANGED <<env, exc, dir_pending, calls, backend, log>>

Return ==
    /\ status = "running"
    /\ frames # <<>>
    /\ Top.pc = "exit"
    /\ Leave("returned")

Unwind ==
    /\ status = "raising"
    /\ frames # <<>>
    /\ Leave("raised")

(***************************************************************************)
(* The sources a run may be given.                                         *)
(***************************************************************************)
MaxMembers == 2
\* the longest tar archive, in members

SeqsUpTo(S, n) == UNION {[1..k -> S] : k \in 0..n}

Dir(name, mode) == TarInfo(name, DIRTYPE, mode, 0, 0, "", 0, "")

Reg(name, uid, data) == TarInfo(name, REGTYPE, DefaultPerm, uid, 0, "", 0, data)

Sym(name, target) == TarInfo(name, SYMTYPE, 511, 0, 0, target, 0, "")

Chr(name, devminor) == TarInfo(name, CHRTYPE, DefaultPerm, 0, 0, "", devminor, "")

Fifo(name) == TarInfo(name, FIFOTYPE, DefaultPerm, 0, 0, "", 0, "")

\* a hard link: a member type that _MODE_MAPPING does not know
Lnk(name, target) == TarInfo(name, LNKTYPE, DefaultPerm, 0, 0, target, 0, "")

\* live trees: the root, then "a" (with "b" below it when a directory), then ".wh.a"
LiveRoots == {<<Dir(".", 493)>>, <<Dir(".", 448)>>}

LiveA ==
    {<<>>, <<Reg("a", 0, "x")>>, <<Reg("a", 0, "y")>>, <<Reg("a", 1, "x")>>,
     <<Sym("a", "t")>>, <<Sym("a", "u")>>, <<Chr("a", 0)>>, <<Chr("a", 1)>>,
     <<Fifo("a")>>, <<Dir("a", 493)>>,
     <<Dir("a", 493), Reg("a/b", 0, "x")>>, <<Dir("a", 493), Reg("a/b", 0, "y")>>,
     <<Dir("a", 493), Dir("a/b", 493)>>}

LiveWh == {<<>>, <<Reg(".wh.a", 0, "")>>, <<Dir(".wh.a", 493)>>}

LiveEntries == {r \o a \o w : r \in LiveRoots, a \in LiveA, w \in LiveWh}

LiveTrees == {LiveTree(e) : e \in LiveEntries}

\* the live trees taken as the lower operand: those with the root mode 0o755
LowerLiveTrees == {t \in LiveTrees : S_IMODE(t.info["/"].mode) = 493}

\* tar archives: any sequence of members
TarPool ==
    {Dir(".", 493), Dir("a", 493), Reg("a", 0, "x"), Reg("a", 0, "y"),
     Reg("a/b", 0, "x"), Lnk("a", "b")}

TarTrees == {TarFileLoader(m) : m \in SeqsUpTo(TarPool, MaxMembers)}

(***************************************************************************)
(* Differ.__init__ and the runs.                                           *)
(***************************************************************************)
DefaultOptions == DifferOptions(NoneId, NoneId, TRUE, TRUE, TRUE)

\* the state after Differ(merged_dir, lower_dir, output, options=options)
Constructed ==
    /\ status = "init"
    /\ exc = ""
    /\ frames = <<>>
    /\ dir_pending = <<>>
    /\ calls = <<>>
    /\ backend = <<>>
    /\ log = <<>>
    /\ handles = <<>>
    /\ oslog = <<>>

\* a merged entry that a sink refuses: a char device 0:0 (overlay), a regular
\* file named ".wh.<name>" (AUFS)
Refusable(src) ==
    \E path \in DOMAIN src.info :
        LET ti == src.info[path]
        IN  \/ ti.type = CHRTYPE /\ makedev(ti.devmajor, ti.devminor) = 0
            \/ ti.type = REGTYPE /\ is_whiteout_path(path)

\* without I/O faults output_error_strict matters only when a sink refuses an
\* entry, so only then is the best-effort setting tried as well
OptionsFor(src) ==
    IF Refusable(src)
    THEN {DefaultOptions, DifferOptions(NoneId, NoneId, TRUE, TRUE, FALSE)}
    ELSE {DefaultOptions}

SourcePairs ==
    (LiveTrees \X LowerLiveTrees) \cup (TarTrees \X TarTrees)

Init ==
    /\ \E p \in SourcePairs :
          /\ merged_dir = p[1]
          /\ lower_dir = p[2]
    /\ sink \in {"overlay", "aufs"}
    /\ options \in OptionsFor(merged_dir)
    /\ bad_in = {}
    /\ bad_out = {}
    /\ run = 1
    /\ prev_calls = <<>>
    /\ Constructed

Next ==
    \/ Diff
    \/ DiffDirsList
    \/ DiffDirsEntry
    \/ DiffDirsDelete
    \/ DiffDirsEnd
    \/ InsertDirList
    \/ InsertDirEntry
    \/ InsertDirEnd
    \/ DiffFiles
    \/ InsertFile
    \/ DiffOther
    \/ InsertOther
    \/ Return
    \/ Unwind

Spec == Init /\ [][Next]_vars

(***************************************************************************)
(* Properties of the sequence of sink calls.                               *)
(***************************************************************************)
\* the proper ancestors of an archive path, up to the root "."
RECURSIVE Ancestors(_)
Ancestors(p) ==
    IF p = "." \/ p = "" THEN {}
    ELSE LET head == posix_split(p)[1]
         IN  {head} \cup Ancestors(head)

WrittenBefore(q, j) ==
    \E i \in 1..(j - 1) : calls[i].op = "write_dir" /\ calls[i].path = q

\* C1: every sink call on a non-root path p comes after a write_dir call for
\* every proper ancestor of p, the root "." included.
C1_AncestorsFirst ==
    \A j \in 1..Len(calls) :
        \A q \in Ancestors(calls[j].path) : WrittenBefore(q, j)

\* a finished run that wrote below a subdirectory: entries at depth one and two
C1_Witness ==
    /\ status = "returned"
    /\ \E j \in 1..Len(calls) : calls[j].path = "./a/b"
    /\ \E j \in 1..Len(calls) : calls[j].op = "delete_marker" /\ calls[j].path # "."

(***************************************************************************)
(* Properties of the forwarding sinks.                                     *)
(***************************************************************************)
\* the backend calls that sink call number i made
MadeBy(i) == SelectSeq(backend, LAMBDA b : b.by = i)

Whiteout(b) == b.op = "write_other" /\ S_ISCHR(b.st.mode) /\ b.st.rdev = 0

Logged(kind, path, verb) ==
    \E k \in 1..Len(log) :
        log[k].kind = kind /\ log[k].path = path /\ log[k].verb = verb

\* C8: through the overlay sink a char device with rdev 0 reaches the backend
\* exactly for delete_marker: delete_marker(p) makes one backend
\* write_other(p, S_IFCHR|0o444, uid 0, gid 0, size 0, mtime 0, rdev 0), a
\* write_other of a char device 0:0 is an output error that makes no backend
\* call, and every other call is forwarded once, unchanged.
C8_OverlaySink ==
    sink = "overlay" =>
        /\ \A i \in 1..Len(calls) :
              LET c == calls[i]
              IN  IF c.op = "delete_marker"
                  THEN MadeBy(i) = <<BackendCall(
                           Call("write_other", c.path,
                                StatInfo(S_IFCHR + 292, 0, 0, 0, 0, 0), "", ""), i)>>
                  ELSE IF c.op = "write_other" /\ S_ISCHR(c.st.mode) /\ c.st.rdev = 0
                  THEN /\ MadeBy(i) = <<>>
                       /\ Logged("output", c.path, "writing other")
                  ELSE MadeBy(i) = <<BackendCall(c, i)>>
        /\ \A k \in 1..Len(backend) :
              Whiteout(backend[k]) <=> calls[backend[k].by].op = "delete_marker"

\* a best-effort run through the overlay sink that had a char device 0:0
\* refused, a deletion turned into a whiteout and a directory forwarded
C8_Witness ==
    /\ sink = "overlay"
    /\ status = "returned"
    /\ \E i \in 1..Len(calls) :
          /\ calls[i].op = "write_other"
          /\ S_ISCHR(calls[i].st.mode)
          /\ calls[i].st.rdev = 0
    /\ \E i \in 1..Len(calls) : calls[i].op = "delete_marker"
    /\ \E i \in 1..Len(calls) : calls[i].op = "write_dir"

AufsWhiteout(b) == b.op = "write_file" /\ is_whiteout_path(b.path)

\* C9: through the AUFS sink a regular file named ".wh.<x>" reaches the
\* backend exactly for delete_marker: delete_marker(p) makes one backend
\* write_file(join(dirname(p), ".wh." + basename(p)), S_IFREG|0o444, uid 0,
\* gid 0, size 0, mtime 0, rdev 0, empty reader), a write_file whose basename
\* starts with ".wh." is an output error that makes no backend call, and every
\* other call is forwarded once, unchanged.
C9_AufsSink ==
    sink = "aufs" =>
        /\ \A i \in 1..Len(calls) :
              LET c == calls[i]
                  sp == posix_split(c.path)
              IN  IF c.op = "delete_marker"
                  THEN MadeBy(i) = <<BackendCall(
                           Call("write_file", sp[1] \o "/.wh." \o sp[2],
                                StatInfo(S_IFREG + 292, 0, 0, 0, 0, 0), "", ""), i)>>
                  ELSE IF c.op = "write_file"
                          /\ StartsWith(posix_split(c.path)[2], ".wh.")
                  THEN /\ MadeBy(i) = <<>>
                       /\ Logged("output", c.path, "writing file")
                  ELSE MadeBy(i) = <<BackendCall(c, i)>>
        /\ \A k \in 1..Len(backend) :
              AufsWhiteout(backend[k]) <=> calls[backend[k].by].op = "delete_marker"

\* a best-effort run through the AUFS sink that had a ".wh." file refused, a
\* deletion turned into a whiteout and a directory forwarded
C9_Witness ==
    /\ sink = "aufs"
    /\ status = "returned"
    /\ \E i \in 1..Len(calls) :
          calls[i].op = "write_file" /\ is_whiteout_path(calls[i].path)
    /\ \E i \in 1..Len(calls) : calls[i].op = "delete_marker"
    /\ \E i \in 1..Len(calls) : calls[i].op = "write_dir"

\* C7: no path is written to the backend more than once in one run, through
\* the overlay sink or through the AUFS sink.
C7_BackendPathsDistinct ==
    \A i, j \in 1..Len(backend) :
        i # j => backend[i].path # backend[j].path

(***************************************************************************)
(* Trees and union mounts.  A tree maps a path ("/" is the root) to a      *)
(* node; an upper layer is what the backend was given, the last write at a *)
(* path standing for the path.                                             *)
(***************************************************************************)
Node(kind, fmt, perm, uid, gid, data, linkname, rdev, synth) ==
    [kind |-> kind, fmt |-> fmt, perm |-> perm, uid |-> uid, gid |-> gid,
     data |-> data, linkname |-> linkname, rdev |-> rdev, synth |-> synth]

\* the node that an entry of a source stands for; a directory that a tar
\* archive only implies has no metadata of its own
SourceNode(src, path) ==
    LET ti == src.info[path]
    IN  IF src.adapter = "tar" /\ ti = MISSING_DIRECTORY_TARINFO
        THEN Node("dir", 0, 0, 0, 0, "", "", 0, TRUE)
        ELSE CASE ti.type = DIRTYPE ->
                    Node("dir", 0, S_IMODE(ti.mode), ti.uid, ti.gid, "", "", 0, FALSE)
               [] ti.type = REGTYPE ->
                    Node("file", 0, S_IMODE(ti.mode), ti.uid, ti.gid, ti.data, "", 0, FALSE)
               [] ti.type = SYMTYPE ->
                    Node("symlink", 0, S_IMODE(ti.mode), ti.uid, ti.gid, "",
                         ti.linkname, 0, FALSE)
               [] OTHER ->
                    Node("other", ModeMapping(ti.type), S_IMODE(ti.mode), ti.uid, ti.gid,
                         "", "", makedev(ti.devmajor, ti.devminor), FALSE)

TreeOf(src) == [path \in DOMAIN src.info |-> SourceNode(src, path)]

\* the node that a backend call writes
WrittenNode(b) ==
    CASE b.op = "write_dir" ->
            Node("dir", 0, S_IMODE(b.st.mode), b.st.uid, b.st.gid, "", "", 0, FALSE)
      [] b.op = "write_file" ->
            Node("file", 0, S_IMODE(b.st.mode), b.st.uid, b.st.gid, b.data, "", 0, FALSE)
      [] b.op = "write_symlink" ->
            Node("symlink", 0, S_IMODE(b.st.mode), b.st.uid, b.st.gid, "",
                 b.linkname, 0, FALSE)
      [] OTHER ->
            Node("other", S_IFMT(b.st.mode), S_IMODE(b.st.mode), b.st.uid, b.st.gid,
                 "", "", b.st.rdev, FALSE)

LastWrite(path) ==
    backend[CHOOSE k \in 1..Len(backend) :
                /\ NormName(backend[k].path) = path
                /\ \A m \in (k + 1)..Len(backend) : NormName(backend[m].path) # path]

UpperLayer ==
    [path \in {NormName(backend[k].path) : k \in 1..Len(backend)} |->
        WrittenNode(LastWrite(path))]

RECURSIVE TreeAncestors(_)
TreeAncestors(path) ==
    IF path = "/" \/ path = "" THEN {}
    ELSE LET head == posix_split(path)[1]
         IN  {head} \cup TreeAncestors(head)

\* a lower entry shows through the upper layer when every ancestor that the
\* upper layer writes is a directory in both
ShowsThrough(lower, upper, path) ==
    \A q \in TreeAncestors(path) :
        q \in DOMAIN upper =>
            /\ upper[q].kind = "dir"
            /\ q \in DOMAIN lower
            /\ lower[q].kind = "dir"

OverlayWhiteout(n) == n.kind = "other" /\ n.fmt = S_IFCHR /\ n.rdev = 0

\* overlay union: an upper entry replaces the lower one, directories merge, a
\* char device 0:0 hides the lower entry at its path
OverlayUnion(lower, upper) ==
    LET shown == {p \in DOMAIN upper : ~OverlayWhiteout(upper[p])}
        kept == {p \in DOMAIN lower \ DOMAIN upper : ShowsThrough(lower, upper, p)}
    IN  [p \in shown \cup kept |-> IF p \in shown THEN upper[p] ELSE lower[p]]

AufsWhiteoutNode(upper, p) ==
    upper[p].kind = "file" /\ StartsWith(posix_split(p)[2], ".wh.")

\* the sibling that the whiteout file at p hides
AufsTarget(p) ==
    LET sp == posix_split(p)
    IN  posix_join(sp[1], SubSeq(sp[2], 5, Len(sp[2])))

\* AUFS union: an upper entry replaces the lower one, directories merge, an
\* upper file ".wh.<name>" hides the lower sibling <name> and is not visible
AufsUnion(lower, upper) ==
    LET whs == {p \in DOMAIN upper : AufsWhiteoutNode(upper, p)}
        hidden == {AufsTarget(p) : p \in whs}
        shown == DOMAIN upper \ whs
        kept == {p \in DOMAIN lower \ DOMAIN upper :
                    /\ ShowsThrough(lower, upper, p)
                    /\ ({p} \cup TreeAncestors(p)) \cap hidden = {}}
    IN  [p \in shown \cup kept |-> IF p \in shown THEN upper[p] ELSE lower[p]]

\* equal in kind, mode, uid, gid, file bytes, symlink target and device number
SameNode(want, got) ==
    IF want.synth THEN got.kind = "dir"
    ELSE [want EXCEPT !.synth = FALSE] = [got EXCEPT !.synth = FALSE]

SameTree(want, got) ==
    /\ DOMAIN want = DOMAIN got
    /\ \A p \in DOMAIN want : SameNode(want[p], got[p])

NoIOErrors == status = "returned" /\ log = <<>>

HasOverlayWhiteout(src) ==
    \E p \in DOMAIN src.info : OverlayWhiteout(SourceNode(src, p))

HasAufsWhiteout(src) ==
    \E p \in DOMAIN src.info :
        SourceNode(src, p).kind = "file" /\ StartsWith(posix_split(p)[2], ".wh.")

\* C2: when merged and lower were read without I/O errors and merged holds no
\* char device 0:0, the overlay union of lower and the layer written through
\* the overlay sink equals merged in names, kinds, mode, uid, gid, file bytes,
\* symlink targets and device numbers.
C2_OverlayRoundTrip ==
    (sink = "overlay" /\ NoIOErrors /\ ~HasOverlayWhiteout(merged_dir)) =>
        SameTree(TreeOf(merged_dir), OverlayUnion(TreeOf(lower_dir), UpperLayer))

\* C3: when merged and lower were read without I/O errors and merged holds no
\* regular file named ".wh.<x>", the AUFS union of lower and the layer written
\* through the AUFS sink equals merged in names, kinds, mode, uid, gid, file
\* bytes, symlink targets and device numbers.
C3_AufsRoundTrip ==
    (sink = "aufs" /\ NoIOErrors /\ ~HasAufsWhiteout(merged_dir)) =>
        SameTree(TreeOf(merged_dir), AufsUnion(TreeOf(lower_dir), UpperLayer))

(***************************************************************************)
(* Minimality.                                                             *)
(***************************************************************************)
\* the paths of a source at or beneath d
Under(src, d) ==
    {p \in DOMAIN src.info : p = d \/ d \in TreeAncestors(p)}

\* the entries at p have the same kind, stats equal under the options filter,
\* the same bytes and the same symlink target
EqualAt(p) ==
    LET m == HandleStat(OPERAND_MERGED, p)
        l == HandleStat(OPERAND_LOWER, p)
    IN  /\ m.ok
        /\ l.ok
        /\ SourceNode(merged_dir, p).kind = SourceNode(lower_dir, p).kind
        /\ ~stats_differ(options, m.st, l.st)
        /\ Info(OPERAND_MERGED, p).data = Info(OPERAND_LOWER, p).data
        /\ Info(OPERAND_MERGED, p).linkname = Info(OPERAND_LOWER, p).linkname

EqualSubtrees(d) ==
    /\ d \in DOMAIN merged_dir.info
    /\ d \in DOMAIN lower_dir.info
    /\ SourceNode(merged_dir, d).kind = "dir"
    /\ Under(merged_dir, d) = Under(lower_dir, d)
    /\ \A p \in Under(merged_dir, d) : EqualAt(p)

\* C4: without I/O failures, when the merged and lower subtrees rooted at a
\* directory d are equal (names, kinds, filtered stats, bytes, symlink targets)
\* no sink call is made for d or for a path beneath d; diff(T, T) makes none.
C4_Minimality ==
    NoIOErrors =>
        \A d \in DOMAIN merged_dir.info :
            EqualSubtrees(d) =>
                \A j \in 1..Len(calls) :
                    NormName(calls[j].path) \notin Under(merged_dir, d)

(***************************************************************************)
(* Two runs with the operands exchanged: diff(A, B), then diff(B, A).      *)
(***************************************************************************)
\* Differ(lower_dir, merged_dir, output).diff() after the first run returned
SwapOperands ==
    /\ run = 1
    /\ status = "returned"
    /\ run' = 2
    /\ prev_calls' = calls
    /\ merged_dir' = lower_dir
    /\ lower_dir' = merged_dir
    /\ status' = "init"
    /\ exc' = ""
    /\ frames' = <<>>
    /\ dir_pending' = <<>>
    /\ calls' = <<>>
    /\ backend' = <<>>
    /\ log' = <<>>
    /\ handles' = <<>>
    /\ oslog' = <<>>
    /\ UNCHANGED <<sink, options, bad_in, bad_out>>

SwapTrees == {t \in LiveTrees : "/.wh.a" \notin DOMAIN t.info}

InitSwap ==
    /\ \E p \in (SwapTrees \X SwapTrees) \cup (TarTrees \X TarTrees) :
          /\ merged_dir = p[1]
          /\ lower_dir = p[2]
    /\ sink = "overlay"
    /\ options = DefaultOptions
    /\ bad_in = {}
    /\ bad_out = {}
    /\ run = 1
    /\ prev_calls = <<>>
    /\ Constructed

NextSwap ==
    \/ Next
    \/ SwapOperands

SpecSwap == InitSwap /\ [][NextSwap]_vars

PathsOf(cs) == {cs[j].path : j \in 1..Len(cs)}

DeletedIn(cs) == {cs[j].path : j \in {k \in 1..Len(cs) : cs[k].op = "delete_marker"}}

BothReturned == run = 2 /\ status = "returned"

SharedParent(p) ==
    LET q == posix_split(NormName(p))[1]
    IN  /\ q \in DOMAIN merged_dir.info
        /\ q \in DOMAIN lower_dir.info
        /\ merged_dir.info[q].type = DIRTYPE
        /\ lower_dir.info[q].type = DIRTYPE

MaxFaults == 1
\* the most input and output operations that fail in one run

FaultA ==
    {<<>>, <<Reg("a", 0, "x")>>, <<Reg("a", 0, "y")>>, <<Sym("a", "t")>>,
     <<Dir("a", 493), Reg("a/b", 0, "x")>>, <<Dir("a", 493), Reg("a/b", 0, "y")>>}

FaultTrees(adapter) ==
    {[LiveTree(<<Dir(".", 493)>> \o a) EXCEPT !.adapter = adapter] : a \in FaultA}

FaultPairs ==
    (FaultTrees("file") \X FaultTrees("file")) \cup (FaultTrees("path") \X FaultTrees("path"))

\* the system calls behind a handle of this kind
Verbs(adapter, type) ==
    IF type = DIRTYPE
    THEN IF adapter = "file" THEN {"open", "list", "stat"} ELSE {"list", "stat"}
    ELSE IF type = REGTYPE
    THEN IF adapter = "file" THEN {"open", "stat", "read"} ELSE {"stat", "reader", "read"}
    ELSE IF adapter = "file" THEN {"open", "stat", "readlink"} ELSE {"stat", "readlink"}

PointsOf(operand, src) ==
    UNION {{[operand |-> operand, path |-> p, verb |-> v] :
                v \in Verbs(src.adapter, src.info[p].type)} : p \in DOMAIN src.info}

RECURSIVE SubsetsUpTo(_, _)
SubsetsUpTo(S, k) ==
    IF k = 0 THEN {{}}
    ELSE LET prev == SubsetsUpTo(S, k - 1)
         IN  prev \cup {T \cup {x} : T \in prev, x \in S}

OutPaths == {".", "./a", "./a/b"}

InitFault ==
    /\ \E p \in FaultPairs :
          /\ merged_dir = p[1]
          /\ lower_dir = p[2]
    /\ sink = "overlay"
    /\ options \in {DifferOptions(NoneId, NoneId, TRUE, is, os) : is, os \in BOOLEAN}
    /\ bad_in \in SubsetsUpTo(PointsOf(OPERAND_MERGED, merged_dir)
                                 \cup PointsOf(OPERAND_LOWER, lower_dir), MaxFaults)
    /\ bad_out \in SubsetsUpTo(OutPaths, MaxFaults - Cardinality(bad_in))
    /\ run = 1
    /\ prev_calls = <<>>
    /\ Constructed

SpecFault == InitFault /\ [][Next]_vars

(***************************************************************************)
(* Resources.                                                              *)
(***************************************************************************)
Count(ev, res, n) ==
    Cardinality({i \in 1..n : oslog[i].ev = ev /\ oslog[i].res = res})

Finished == status \in {"returned", "raised"}

\* C6: every OS resource a handle acquires (directory fd, file fd, scanner,
\* owned reader fd) is released exactly once by the time diff() returns or
\* raises: nothing is released that is not open, and when diff() is over every
\* resource opened has been released.
C6_ReleasedOnce ==
    /\ \A i \in 1..Len(oslog) :
          Count("close", oslog[i].res, i) <= Count("open", oslog[i].res, i)
    /\ Finished =>
          \A i \in 1..Len(oslog) :
              Count("close", oslog[i].res, Len(oslog))
                  = Count("open", oslog[i].res, Len(oslog))

\* diff() raised out of a nested call while an owned reader fd, a scanner and
\* a directory fd or two were open
C6_Witness ==
    /\ status = "raised"
    /\ Len(calls) > 0
    /\ \E i \in 1..Len(oslog) : oslog[i].res.kind = "reader"
    /\ \E i \in 1..Len(oslog) : oslog[i].res.kind = "scanner"

(***************************************************************************)
(* Best-effort comparison of two regular files.                            *)
(***************************************************************************)
\* both operands have a regular file at archive path p
Compared(p) ==
    /\ Exists(OPERAND_MERGED, NormName(p))
    /\ Exists(OPERAND_LOWER, NormName(p))
    /\ Info(OPERAND_MERGED, NormName(p)).type = REGTYPE
    /\ Info(OPERAND_LOWER, NormName(p)).type = REGTYPE

InputFailed(operand, p) ==
    \E k \in 1..Len(log) :
        log[k].kind = "input" /\ log[k].operand = operand /\ log[k].path = p

CallsAt(p) == {j \in 1..Len(calls) : calls[j].path = p}

\* C10: with input_error_strict false, when two regular files of one name are
\* compared and accessing, opening or reading the lower one fails while the
\* merged one is readable, the merged file is inserted with exactly one
\* write_file call; when the merged one fails no sink call is made for the
\* path; diff() raises in neither case.
C10_BestEffortFiles ==
    (~options.input_error_strict /\ bad_out = {}) =>
        \A p \in OutPaths :
            Compared(p) =>
                /\ (InputFailed(OPERAND_LOWER, p) \/ InputFailed(OPERAND_MERGED, p))
                      => status \notin {"raising", "raised"}
                /\ (status = "returned" /\ InputFailed(OPERAND_LOWER, p)
                        /\ ~InputFailed(OPERAND_MERGED, p))
                      => /\ Cardinality(CallsAt(p)) = 1
                         /\ \A j \in CallsAt(p) : calls[j].op = "write_file"
                /\ (status = "returned" /\ InputFailed(OPERAND_MERGED, p))
                      => CallsAt(p) = {}

(***************************************************************************)
(* Best-effort handling of a directory that cannot be read.                *)
(***************************************************************************)
\* _diff_dirs handled an input error of this operand at archive path p
ListingFailed(operand, p) ==
    \E k \in 1..Len(log) :
        /\ log[k].kind = "input"
        /\ log[k].operand = operand
        /\ log[k].path = p
        /\ log[k].verb = "listing"

\* the sentinel stat stands for the directory at p: it waits in _dir_pending
\* or it was written with it
SentinelUsed(p) ==
    \/ \E k \in 1..Len(dir_pending) : dir_pending[k] = <<p, FAILED_STAT>>
    \/ \E j \in 1..Len(calls) :
          /\ calls[j].op = "write_dir"
          /\ calls[j].path = p
          /\ calls[j].st = stats_filter(options, FAILED_STAT)

\* C11: with input_error_strict false a directory whose open, listing or stat
\* fails is processed as an empty directory with the sentinel stat: when the
\* merged side fails _diff_dirs has no merged entry to visit (every lower name
\* gets a delete marker), when the lower side fails it has no lower name
\* (every merged child is inserted whole), and diff() does not raise.
C11_FailedDirIsEmpty ==
    ~options.input_error_strict =>
        /\ \A k \in 1..Len(frames) :
              (frames[k].fn = "diff_dirs" /\ frames[k].pc = "loop") =>
                  LET f == frames[k]
                  IN  /\ ListingFailed(OPERAND_MERGED, f.archive_path) =>
                            /\ f.entries = <<>>
                            /\ status = "running" => SentinelUsed(f.archive_path)
                      /\ ListingFailed(OPERAND_LOWER, f.archive_path) =>
                            f.lower_map = <<>>
        /\ (bad_out = {} /\ \E p \in OutPaths :
                               \/ ListingFailed(OPERAND_MERGED, p)
                               \/ ListingFailed(OPERAND_LOWER, p))
              => status \notin {"raising", "raised"}

(***************************************************************************)
(* Strict handling of input failures.                                      *)
(***************************************************************************)
\* sink call j handed the backend a reader of the merged file whose read fails
CopyFailed(j) ==
    /\ calls[j].op = "write_file"
    /\ MadeBy(j) # <<>>
    /\ ReaderKind(OPERAND_MERGED, NormName(calls[j].path)) = "ok"
    /\ Fails(OPERAND_MERGED, NormName(calls[j].path), "read")

RaisedWith(e) == status \in {"raising", "raised"} /\ exc = e

\* C12: with input_error_strict true the first per-entry input failure
\* (listing, accessing, opening or reading, on either operand) makes diff()
\* raise UnionDiffInputException, and no sink call is made after the failure.
C12_StrictInputRaises ==
    options.input_error_strict =>
        /\ \A k \in 1..Len(log) :
              log[k].kind = "input" =>
                  /\ RaisedWith("UnionDiffInputException")
                  /\ Len(calls) = log[k].at
        /\ \A j \in 1..Len(calls) :
              CopyFailed(j) =>
                  /\ RaisedWith("UnionDiffInputException")
                  /\ Len(calls) = j

(***************************************************************************)
(* Two runs over the same sources: one whose backend never fails, then one *)
(* whose backend fails at the paths of bad_out.                            *)
(***************************************************************************)
RetryPaths == OutPaths \cup {"./.wh.a"}

\* Differ(merged_dir, lower_dir, output).diff() again, over a failing backend
RunWithFailingBackend ==
    /\ run = 1
    /\ status = "returned"
    /\ run' = 2
    /\ prev_calls' = calls
    /\ bad_out' \in SubsetsUpTo(RetryPaths, MaxFaults) \ {{}}
    /\ status' = "init"
    /\ exc' = ""
    /\ frames' = <<>>
    /\ dir_pending' = <<>>
    /\ calls' = <<>>
    /\ backend' = <<>>
    /\ log' = <<>>
    /\ handles' = <<>>
    /\ oslog' = <<>>
    /\ UNCHANGED <<merged_dir, lower_dir, sink, options, bad_in>>

\* the merged trees: those of the runs with faults, and two with an entry
\* that a sink refuses
RetryTrees ==
    FaultTrees("file")
        \cup {LiveTree(<<Dir(".", 493), Chr("a", 0)>>),
              LiveTree(<<Dir(".", 493), Reg(".wh.a", 0, "x"), Reg("a", 0, "x")>>)}

InitRetry ==
    /\ \E p \in RetryTrees \X FaultTrees("file") :
          /\ merged_dir = p[1]
          /\ lower_dir = p[2]
    /\ sink \in {"overlay", "aufs"}
    /\ options \in {DifferOptions(NoneId, NoneId, TRUE, TRUE, os) : os \in BOOLEAN}
    /\ bad_in = {}
    /\ bad_out = {}
    /\ run = 1
    /\ prev_calls = <<>>
    /\ Constructed

NextRetry ==
    \/ Next
    \/ RunWithFailingBackend

SpecRetry == InitRetry /\ [][NextRetry]_vars

\* sink call j failed: the sink refused it, or it reached the backend at a
\* path where the backend fails
FailedCall(j) ==
    \/ MadeBy(j) = <<>>
    \/ \E i \in 1..Len(backend) : backend[i].by = j /\ backend[i].path \in bad_out

\* C13: with output_error_strict true the first failing sink call makes diff()
\* raise UnionDiffOutputException and no later sink call is made; with
\* output_error_strict false a failing sink call is logged and skipped, and
\* the sink calls diff() makes are those of a run in which no sink call fails.
C13_OutputErrors ==
    /\ options.output_error_strict =>
          \A j \in 1..Len(calls) :
              FailedCall(j) =>
                  /\ RaisedWith("UnionDiffOutputException")
                  /\ Len(calls) = j
    /\ ~options.output_error_strict =>
          /\ status \notin {"raising", "raised"}
          /\ \A j \in 1..Len(calls) :
                FailedCall(j) =>
                    \E k \in 1..Len(log) : log[k].kind = "output" /\ log[k].at = j
          /\ (run = 2 /\ status = "returned") => calls = prev_calls

\* a best-effort run went on making sink calls after one of them had failed
C13_Witness ==
    /\ run = 2
    /\ status = "returned"
    /\ ~options.output_error_strict
    /\ \E j \in 1..Len(calls) : FailedCall(j) /\ j < Len(calls)

(***************************************************************************)
(* Runs whose top-level sources may fail to open: live trees whose root    *)
(* cannot be opened, and tar archives with and without a root entry.       *)
(***************************************************************************)
OpenTarTrees ==
    {TarFileLoader(<<>>), TarFileLoader(<<Dir(".", 493)>>),
     TarFileLoader(<<Dir(".", 493), Reg("a", 0, "x")>>)}

RootOpen(operand) == [operand |-> operand, path |-> "/", verb |-> "open"]

InitOpen ==
    /\ \E p \in (FaultTrees("file") \X FaultTrees("file"))
                    \cup (OpenTarTrees \X OpenTarTrees) :
          /\ merged_dir = p[1]
          /\ lower_dir = p[2]
    /\ sink = "overlay"
    /\ options \in {DifferOptions(NoneId, NoneId, TRUE, is, TRUE) : is \in BOOLEAN}
    /\ bad_in \in IF merged_dir.adapter = "tar" THEN {{}}
                  ELSE SUBSET {RootOpen(OPERAND_MERGED), RootOpen(OPERAND_LOWER)}
    /\ bad_out = {}
    /\ run = 1
    /\ prev_calls = <<>>
    /\ Constructed

SpecOpen == InitOpen /\ [][Next]_vars

\* _open_dir of this operand, or entering what it returns, fails
TopOpenFails(operand) ==
    \/ ~Exists(operand, "/")
    \/ Adapter(operand) = "file" /\ Fails(operand, "/", "open")

\* C14: if opening the top-level merged or lower source fails (a tar archive
\* whose index has no root entry included), diff() raises UnionDiffException
\* whatever input_error_strict is, and no sink call is made.
C14_TopLevelOpenFatal ==
    (status # "init" /\ (TopOpenFails(OPERAND_MERGED) \/ TopOpenFails(OPERAND_LOWER)))
        => /\ RaisedWith("UnionDiffException")
           /\ calls = <<>>

\* a best-effort run raised because the lower source could not be opened
\* after the merged one had been
C14_Witness ==
    /\ status = "raised"
    /\ exc = "UnionDiffException"
    /\ ~options.input_error_strict
    /\ TopOpenFails(OPERAND_LOWER)
    /\ ~TopOpenFails(OPERAND_MERGED)
    /\ oslog # <<>>

(***************************************************************************)
(* The message of an output error.                                         *)
(***************************************************************************)
\* the verb that names a sink method in an output-error message
VerbOf(op) ==
    CASE op = "write_dir" -> "creating dir"
      [] op = "delete_marker" -> "creating delete marker"
      [] op = "write_file" -> "writing file"
      [] op = "write_symlink" -> "writing symlink"
      [] op = "write_other" -> "writing other"

\* C15: the message of an output error, raised or logged, carries the path
\* passed to the failing sink call and the verb of that call; a failed
\* delete_marker(join(dir, name)) is reported with the path join(dir, name)
\* and the verb "creating delete marker".
C15_OutputErrorMessage ==
    \A k \in 1..Len(log) :
        log[k].kind = "output" =>
            /\ log[k].at \in 1..Len(calls)
            /\ log[k].path = calls[log[k].at].path
            /\ log[k].verb = VerbOf(calls[log[k].at].op)

(***************************************************************************)
(* The index and the listings of a tar archive.                            *)
(***************************************************************************)
\* the names of the index paths directly below directory d
ImmediateChildren(src, d) ==
    {posix_split(p)[2] : p \in {q \in DOMAIN src.info :
                                   q # "/" /\ posix_split(q)[1] = d}}

\* C16: for every tar archive and every order of its members, iterating a
\* TarDirectoryManager yields each immediate child name of the directory
\* exactly once.
C16_ListingOnce ==
    merged_dir.adapter = "tar" =>
        \A d \in DOMAIN merged_dir.info :
            LET c == Listing(OPERAND_MERGED, d)
            IN  /\ \A i, j \in 1..Len(c) : c[i].name = c[j].name => i = j
                /\ {c[i].name : i \in 1..Len(c)} = ImmediateChildren(merged_dir, d)

\* the proper prefixes of a normalized path, the root "/" included
RECURSIVE PathAncestors(_)
PathAncestors(p) ==
    IF p = "/" \/ p = "" THEN {}
    ELSE LET head == posix_split(p)[1]
         IN  {head} \cup PathAncestors(head)

\* the entries of the parent's listing that name path q
EntriesFor(src, q) ==
    LET sp == posix_split(q)
        c == ChildrenOf(src, sp[1])
    IN  {c[i] : i \in {k \in 1..Len(c) : c[k].name = sp[2]}}

\* C17: every proper prefix of a member's normalized path has an index entry,
\* and the listing of its parent reports it as a directory (is_dir true,
\* is_file false), with or without a directory member of its own and whatever
\* the type of the member beneath it.
C17_PrefixesAreDirectories ==
    merged_dir.adapter = "tar" =>
        \A p \in DOMAIN merged_dir.info :
            \A q \in PathAncestors(p) :
                /\ q \in DOMAIN merged_dir.info
                /\ q # "/" =>
                      /\ EntriesFor(merged_dir, q) # {}
                      /\ \A e \in EntriesFor(merged_dir, q) :
                            TarIsDir(e.ti) /\ ~TarIsFile(e.ti)

\* TarDirectoryManager.exists_in_archive
exists_in_archive(src, path) == src.info[path] # MISSING_DIRECTORY_TARINFO

\* the index paths that no member of the archive names
Synthesized(members, src) ==
    {q \in DOMAIN src.info :
        \A i \in 1..Len(members) : NormName(members[i].name) # q}

\* C18: the stat of a synthesized tar directory is the sentinel StatInfo with
\* mode 0o777, uid 0, gid 0 and mtime 0; exists_in_archive() is false exactly
\* for the synthesized directories and true for those with a member.
C18_SynthesizedSentinel ==
    \A members \in SeqsUpTo(TarPool, MaxMembers) :
        merged_dir = TarFileLoader(members) =>
            \A q \in DOMAIN merged_dir.info :
                /\ q \in Synthesized(members, merged_dir) =>
                      /\ TarStat(merged_dir.info[q]).ok
                      /\ TarStat(merged_dir.info[q]).st.mode = FAILED_STAT.mode
                      /\ TarStat(merged_dir.info[q]).st.uid = 0
                      /\ TarStat(merged_dir.info[q]).st.gid = 0
                      /\ TarStat(merged_dir.info[q]).st.mtime = 0
                      /\ ~exists_in_archive(merged_dir, q)
                /\ (q \notin Synthesized(members, merged_dir)
                        /\ TarIsDir(merged_dir.info[q]))
                      => exists_in_archive(merged_dir, q)

(***************************************************************************)
(* OutputBackendTarfile (output_tar.py): each write_* call adds one member *)
(* to the archive.  The result of a call is the members it adds; none when *)
(* the call raises.                                                        *)
(***************************************************************************)
S_ISFIFO(mode) == S_IFMT(mode) = S_IFIFO

\* osshim.major and osshim.minor, the inverses of makedev
major(dev) == dev \div DevMinorRange

minor(dev) == dev % DevMinorRange

\* OutputBackendTarfile.archive_root
archive_root == "."

\* OutputBackendTarfile._get_tar_info
get_tar_info(name, st) ==
    LET arch_name ==
            IF name \in {".", "/"} THEN archive_root
            ELSE IF StartsWith(name, "./")
            THEN posix_join(archive_root, SubSeq(name, 3, Len(name)))
            ELSE IF StartsWith(name, "/")
            THEN posix_join(archive_root, SubSeq(name, 2, Len(name)))
            ELSE posix_join(archive_root, name)
        dev == S_ISBLK(st.mode) \/ S_ISCHR(st.mode)
    IN  [TarInfo(arch_name, REGTYPE, S_IMODE(st.mode), st.uid, st.mtime, "",
                 IF dev THEN minor(st.rdev) ELSE 0, "")
            EXCEPT !.gid = st.gid,
                   !.devmajor = IF dev THEN major(st.rdev) ELSE 0]

\* TarFile.addfile(ti, fileobj): the header keeps the permission bits of the
\* mode, and exactly ti.size bytes are copied from fileobj (OSError when it
\* has fewer)
addfile(ti, data) ==
    IF Len(data) < ti.size THEN <<>>
    ELSE <<[ti EXCEPT !.mode = S_IMODE(@), !.data = SubSeq(data, 1, ti.size)]>>

\* OutputBackendTarfile.write_dir
TarWriteDir(call) ==
    addfile([get_tar_info(call.path, call.st) EXCEPT !.type = DIRTYPE, !.size = 0], "")

\* OutputBackendTarfile.write_file
TarWriteFile(call) ==
    addfile([get_tar_info(call.path, call.st) EXCEPT !.type = REGTYPE,
                                                     !.size = call.st.size],
            call.data)

\* OutputBackendTarfile.write_symlink
TarWriteSymlink(call) ==
    addfile([get_tar_info(call.path, call.st) EXCEPT !.type = SYMTYPE, !.size = 0,
                                                     !.linkname = call.linkname], "")

\* a write_other that records every special file as a character device
TarWriteOther_chr(call) ==
    addfile([get_tar_info(call.path, call.st) EXCEPT !.type = CHRTYPE, !.size = 0], "")

\* OutputBackendTarfile.write_other
TarWriteOther(call) ==
    LET ti == [get_tar_info(call.path, call.st) EXCEPT !.size = 0]
    IN  IF S_ISBLK(call.st.mode) THEN addfile([ti EXCEPT !.type = BLKTYPE], "")
        ELSE IF S_ISCHR(call.st.mode) THEN addfile([ti EXCEPT !.type = CHRTYPE], "")
        ELSE IF S_ISFIFO(call.st.mode) THEN addfile([ti EXCEPT !.type = FIFOTYPE], "")
        ELSE <<>>

TarBackendCall(call) ==
    CASE call.op = "write_dir" -> TarWriteDir(call)
      [] call.op = "write_file" -> TarWriteFile(call)
      [] call.op = "write_symlink" -> TarWriteSymlink(call)
      [] call.op = "write_other" -> TarWriteOther(call)

\* the members of the archive after a sequence of backend calls
RECURSIVE TarArchive(_, _)
TarArchive(bs, i) ==
    IF i > Len(bs) THEN <<>>
    ELSE TarBackendCall(bs[i]) \o TarArchive(bs, i + 1)

(***************************************************************************)
(* The tar backend on its own, as in tests/test_io_tar.py: entries are     *)
(* written through an OutputBackendTarfile (backend holds the calls), then *)
(* the archive is opened again through TarFileLoader (merged_dir).         *)
(***************************************************************************)
TarEntryNames == {"a", ".wh.b"}

TarWrites ==
    UNION {
        {Call("write_dir", n, StatInfo(S_IFDIR + p, 0, 0, 0, 0, 0), "", "") :
            p \in {493, 1005}}
        \cup {Call("write_file", n, StatInfo(S_IFREG + p, 0, 0, Len(d), 0, 0), d, "") :
                p \in {420, 2541}, d \in {"", "x", "xyz"}}
        \cup {Call("write_symlink", n, StatInfo(S_IFLNK + 511, 0, 0, Len(t), 0, 0), "", t) :
                t \in {"t", "a/b"}}
        \cup {Call("write_other", n, StatInfo(k + 384, 0, 0, 0, 0, r), "", "") :
                k \in {S_IFCHR, S_IFBLK}, r \in {0, 7, 256, 3079}}
        \cup {Call("write_other", n, StatInfo(S_IFIFO + 420, 0, 0, 0, 0, 0), "", "")}
        : n \in TarEntryNames}

\* one backend.write_*(name, st, ...) call, at a name not written yet
TarBackendWrite ==
    /\ status = "init"
    /\ \E c \in TarWrites :
          /\ \A i \in 1..Len(backend) : backend[i].path # c.path
          /\ backend' = Append(backend, BackendCall(c, 0))
    /\ UNCHANGED <<env, status, exc, frames, dir_pending, calls, log, handles, oslog>>

\* tarfile.open(mode="r") on what was written and TarFileLoader(tf)
TarReadBack ==
    /\ status = "init"
    /\ backend # <<>>
    /\ status' = "read"
    /\ merged_dir' = TarFileLoader(TarArchive(backend, 1))
    /\ UNCHANGED <<lower_dir, sink, options, bad_in, bad_out, run, prev_calls, exc,
                   frames, dir_pending, calls, backend, log, handles, oslog>>

InitTar ==
    /\ merged_dir = EmptyLoader
    /\ lower_dir = EmptyLoader
    /\ sink = "overlay"
    /\ options = DefaultOptions
    /\ bad_in = {}
    /\ bad_out = {}
    /\ run = 1
    /\ prev_calls = <<>>
    /\ Constructed

NextTar ==
    \/ TarBackendWrite
    \/ TarReadBack

SpecTar == InitTar /\ [][NextTar]_vars

\* the kind under which a listing reports what a backend call wrote
WrittenKind(b) ==
    CASE b.op = "write_dir" -> DIRECTORY
      [] b.op = "write_file" -> REGULAR_FILE
      [] OTHER -> OTHER_TYPE

\* C19: an entry (directory, regular file, symlink, block or character
\* device) written through OutputBackendTarfile and read back through
\* TarFileLoader / TarDirectoryManager is listed exactly once under the root,
\* with the same name and kind, and its handle reports the mode, the file
\* bytes, the symlink target and the device major and minor that were written.
C19_TarRoundTrip ==
    status = "read" =>
        \A i \in 1..Len(backend) :
            LET b == backend[i]
                c == Listing(OPERAND_MERGED, "/")
                at == {k \in 1..Len(c) : c[k].name = b.path}
                path == ChildPath("/", b.path)
                st == HandleStat(OPERAND_MERGED, path)
            IN  /\ Cardinality(at) = 1
                /\ \A k \in at : dir_entry_type(c[k]) = WrittenKind(b)
                /\ st.ok
                /\ st.st.mode = b.st.mode
                /\ b.op = "write_file" => FileData(OPERAND_MERGED, path) = b.data
                /\ b.op = "write_symlink" => LinknameOf(OPERAND_MERGED, path) = b.linkname
                /\ b.op = "write_other" =>
                      /\ major(st.st.rdev) = major(b.st.rdev)
                      /\ minor(st.st.rdev) = minor(b.st.rdev)

\* a block device 12:7 and a three-byte file were written and read back
C19_Witness ==
    /\ status = "read"
    /\ \E i \in 1..Len(backend) :
          /\ backend[i].op = "write_other"
          /\ S_ISBLK(backend[i].st.mode)
          /\ backend[i].st.rdev = 3079
    /\ \E i \in 1..Len(backend) : backend[i].op = "write_file" /\ backend[i].data = "xyz"
    /\ Len(Listing(OPERAND_MERGED, "/")) = Len(backend)

(***************************************************************************)
(* Runs under every setting of output_uid, output_gid and scrub_mtime,     *)
(* over live trees whose entries differ in owner and mtime.                *)
(***************************************************************************)
\* an entry owned by uid:gid and last modified at mtime
Stamped(ti, uid, gid, mtime) == [ti EXCEPT !.uid = uid, !.gid = gid, !.mtime = mtime]

OptA ==
    {<<>>, <<Reg("a", 0, "x")>>, <<Sym("a", "t")>>, <<Chr("a", 0)>>, <<Chr("a", 1)>>,
     <<Fifo("a")>>, <<Dir("a", 493), Reg("a/b", 0, "x")>>}

OptEntries ==
    {[i \in 1..Len(e) |-> Stamped(e[i], s[1], s[2], s[3])] :
        e \in {<<Dir(".", 493)>> \o a : a \in OptA},
        s \in {<<0, 0, 0>>, <<1, 2, 5>>}}

OptTrees == {LiveTree(e) : e \in OptEntries}

InitOptions ==
    /\ merged_dir \in OptTrees
    /\ lower_dir \in OptTrees
    /\ sink = "overlay"
    /\ options \in {DifferOptions(u, g, m, TRUE, TRUE) :
                       u \in {NoneId, 7}, g \in {NoneId, 7}, m \in BOOLEAN}
    /\ bad_in = {}
    /\ bad_out = {}
    /\ run = 1
    /\ prev_calls = <<>>
    /\ Constructed

SpecOptions == InitOptions /\ [][Next]_vars

WriteOps == {"write_dir", "write_file", "write_symlink", "write_other"}

StatModes ==
    {S_IFREG + DefaultPerm, S_IFREG + 384, S_IFLNK + 511, S_IFCHR + DefaultPerm,
     S_IFBLK + DefaultPerm, S_IFDIR + 493}

StatValues == {0, 1}

StatPool ==
    {StatInfo(mode, uid, gid, size, mtime, rdev) :
        mode \in StatModes, uid \in StatValues, gid \in StatValues,
        size \in StatValues, mtime \in StatValues, rdev \in StatValues}

StatOptions ==
    {DifferOptions(output_uid, output_gid, scrub_mtime, TRUE, TRUE) :
        output_uid \in {NoneId, 1}, output_gid \in {NoneId, 1},
        scrub_mtime \in BOOLEAN}

InitStats ==
    /\ merged_dir \in StatPool
    /\ lower_dir \in StatPool
    /\ sink = "overlay"
    /\ options \in StatOptions
    /\ bad_in = {}
    /\ bad_out = {}
    /\ run = 1
    /\ prev_calls = <<>>
    /\ Constructed

\* self.options.stats_differ(x, y)
StatsDiffer ==
    /\ status = "init"
    /\ status' = "compared"
    /\ exc' = IF stats_differ(options, merged_dir, lower_dir) THEN "differ" ELSE "same"
    /\ UNCHANGED <<env, frames, dir_pending, calls, backend, log, handles, oslog>>

NextStats == StatsDiffer

SpecStats == InitStats /\ [][NextStats]_vars

\* the equality of section "Stat comparison": written from its words
FilteredEqual(x, y) ==
    /\ x.uid = y.uid
    /\ x.gid = y.gid
    /\ x.mode = y.mode
    /\ S_IFMT(x.mode) \in {S_IFREG, S_IFLNK} => x.size = y.size
    /\ S_IFMT(x.mode) \in {S_IFCHR, S_IFBLK} => x.rdev = y.rdev

KindAt(src, p) ==
    LET k == SourceNode(src, p).kind
    IN  IF k = "dir" THEN DIRECTORY
        ELSE IF k = "file" THEN REGULAR_FILE ELSE OTHER_TYPE

\* both sources have an entry at p, beneath directories that both sources have
Paired(p) ==
    /\ p # "/"
    /\ p \in DOMAIN merged_dir.info
    /\ p \in DOMAIN lower_dir.info
    /\ \A q \in TreeAncestors(p) :
          /\ q \in DOMAIN merged_dir.info
          /\ q \in DOMAIN lower_dir.info
          /\ KindAt(merged_dir, q) = DIRECTORY
          /\ KindAt(lower_dir, q) = DIRECTORY

\* the insert call that an entry of the merged source leads to
InsertOp(p) ==
    LET k == SourceNode(merged_dir, p).kind
    IN  IF k = "dir" THEN "write_dir"
        ELSE IF k = "file" THEN "write_file"
        ELSE IF k = "symlink" THEN "write_symlink" ELSE "write_other"

\* the sink calls made for the entry at p
CallsFor(p) == {j \in 1..Len(calls) : NormName(calls[j].path) = p}

NoInputErrors == \A k \in 1..Len(log) : log[k].kind # "input"

\* the entries at p differ: by their filtered stats, their bytes or their targets
Changed(p) ==
    \/ stats_differ(options, HandleStat(OPERAND_MERGED, p).st,
                    HandleStat(OPERAND_LOWER, p).st)
    \/ /\ KindAt(merged_dir, p) = REGULAR_FILE
       /\ Info(OPERAND_MERGED, p).data # Info(OPERAND_LOWER, p).data
    \/ /\ SourceNode(merged_dir, p).kind = "symlink"
       /\ SourceNode(lower_dir, p).kind = "symlink"
       /\ Info(OPERAND_MERGED, p).linkname # Info(OPERAND_LOWER, p).linkname

\* C22: for two non-directory entries of the same name and the same kind,
\* read without I/O failures, there is an insert call for the path (write_file,
\* write_symlink or write_other) if and only if their filtered stats differ,
\* or they are regular files with different bytes, or symlinks with different
\* targets; otherwise no sink call is made for the path.
C22_InsertIffChanged ==
    (status = "returned" /\ NoInputErrors) =>
        \A p \in DOMAIN merged_dir.info :
            (/\ Paired(p)
             /\ KindAt(merged_dir, p) # DIRECTORY
             /\ KindAt(merged_dir, p) = KindAt(lower_dir, p)) =>
                IF Changed(p)
                THEN \E j \in CallsFor(p) : calls[j].op = InsertOp(p)
                ELSE CallsFor(p) = {}

(***************************************************************************)
(* Wholesale insertion of a merged child that lower has no counterpart of. *)
(***************************************************************************)
\* the directory holding p is compared by _diff_dirs
ParentCompared(p) ==
    /\ p # "/"
    /\ \A q \in TreeAncestors(p) :
          /\ q \in DOMAIN merged_dir.info
          /\ q \in DOMAIN lower_dir.info
          /\ KindAt(merged_dir, q) = DIRECTORY
          /\ KindAt(lower_dir, q) = DIRECTORY

\* lower has no entry named like the merged child p, or one of another kind
Unmatched(p) ==
    /\ p \in DOMAIN merged_dir.info
    /\ ParentCompared(p)
    /\ \/ p \notin DOMAIN lower_dir.info
       \/ KindAt(merged_dir, p) # KindAt(lower_dir, p)

\* the one insert call made for q
InsertedOnce(q) ==
    /\ Cardinality(CallsFor(q)) = 1
    /\ \A j \in CallsFor(q) : calls[j].op = InsertOp(q)

\* the calls for the subtree of q follow the call for q without a gap
PreOrder(q) ==
    \A j \in CallsFor(q) :
        UNION {CallsFor(r) : r \in Under(merged_dir, q)}
            = j..(j + Cardinality(Under(merged_dir, q)) - 1)

\* a resource of the lower source at or beneath p was opened
LowerConsulted(p) ==
    \E k \in 1..Len(oslog) :
        /\ oslog[k].res.operand = OPERAND_LOWER
        /\ (oslog[k].res.path = p \/ p \in TreeAncestors(oslog[k].res.path))

\* C23: when a merged child's kind differs from the kind of the lower entry of
\* its name, or lower has no entry of that name, there is exactly one sink
\* call for the child, a write call, and if it is a directory exactly one
\* write call for every node of its merged subtree, in pre-order; lower is not
\* consulted at or beneath the child and no delete_marker is made for it.
C23_WholesaleInsert ==
    (status = "returned" /\ NoInputErrors) =>
        \A p \in DOMAIN merged_dir.info :
            Unmatched(p) =>
                /\ \A q \in Under(merged_dir, p) : InsertedOnce(q) /\ PreOrder(q)
                /\ ~LowerConsulted(p)

(***************************************************************************)
(* Deletions: the second loop of _diff_dirs.                               *)
(***************************************************************************)
NamesOf(entries) == {entries[i].name : i \in 1..Len(entries)}

\* the names that lower lists in the directory and merged does not
LowerOnly(f) ==
    NamesOf(Listing(OPERAND_LOWER, f.lower)) \ NamesOf(Listing(OPERAND_MERGED, f.merged))

\* the delete_marker calls for entries of the directory d
MarkersIn(d) ==
    {j \in 1..Len(calls) :
        calls[j].op = "delete_marker" /\ posix_split(calls[j].path)[1] = d}

\* where a name comes first in a listing
FirstAt(entries, name) ==
    CHOOSE i \in 1..Len(entries) :
        /\ entries[i].name = name
        /\ \A k \in 1..(i - 1) : entries[k].name # name

\* C24: when a _diff_dirs call has run its loops, exactly the names that the
\* lower listing holds and the merged listing lacks have a delete_marker at
\* join(directory, name), one each; the markers come after every call made
\* for the merged children of the directory, in the order of the lower
\* listing, and no sink call is made for a descendant of a deleted name.
C24_DeleteMarkers ==
    /\ \A j \in 1..Len(calls) :
          calls[j].op = "delete_marker" =>
              \A k \in 1..Len(calls) : calls[j].path \notin Ancestors(calls[k].path)
    /\ Running("diff_dirs", "exit") =>
        LET f == Top
            d == f.archive_path
            lower_entries == Listing(OPERAND_LOWER, f.lower)
        IN  /\ \A n \in LowerOnly(f) :
                  Cardinality({j \in MarkersIn(d) :
                                  calls[j].path = posix_join(d, n)}) = 1
            /\ \A j \in MarkersIn(d) :
                  /\ posix_split(calls[j].path)[2] \in LowerOnly(f)
                  /\ \A k \in (j + 1)..Len(calls) : k \in MarkersIn(d)
                  /\ \A k \in MarkersIn(d) :
                        FirstAt(lower_entries, posix_split(calls[j].path)[2])
                            < FirstAt(lower_entries, posix_split(calls[k].path)[2])
                        => j < k

\* the root was compared: a call for the merged child "a", then the marker
\* for the name ".wh.a" that only lower has
C24_Witness ==
    /\ Running("diff_dirs", "exit")
    /\ Top.archive_path = "."
    /\ LowerOnly(Top) = {".wh.a"}
    /\ \E j \in 1..Len(calls) :
          /\ calls[j].op = "delete_marker"
          /\ calls[j].path = "./.wh.a"
          /\ \E k \in 1..(j - 1) : "./a" \in Ancestors(calls[k].path)

(***************************************************************************)
(* The pending-directory stack and the recursion of _diff_dirs.            *)
(***************************************************************************)
\* the archive paths of the _diff_dirs calls in progress, the root first
RecursionPath ==
    LET fs == SelectSeq(frames, LAMBDA f : f.fn = "diff_dirs")
    IN  [i \in 1..Len(fs) |-> fs[i].archive_path]

PendingPaths == [i \in 1..Len(dir_pending) |-> dir_pending[i][1]]

PendingIsPrefix ==
    /\ Len(PendingPaths) <= Len(RecursionPath)
    /\ PendingPaths = SubSeq(RecursionPath, 1, Len(PendingPaths))

\* the pending directories are consecutive calls of the recursion path
PendingIsSegment ==
    \E k \in 0..(Len(RecursionPath) - Len(PendingPaths)) :
        PendingPaths = SubSeq(RecursionPath, k + 1, k + Len(PendingPaths))

\* a step that made sink calls began by writing the pending directories in
\* push order, and left the stack empty
FlushedInOrder ==
    (status = "running" /\ status' = "running" /\ calls' # calls) =>
        /\ Len(calls') >= Len(calls) + Len(dir_pending)
        /\ \A i \in 1..Len(dir_pending) :
              LET c == calls'[Len(calls) + i]
              IN  /\ c.op = "write_dir"
                  /\ c.path = dir_pending[i][1]
                  /\ c.st = stats_filter(options, dir_pending[i][2])
        /\ dir_pending' = <<>>

AtEnd ==
    /\ Running("diff_dirs", "loop")
    /\ Top.i > Len(Top.entries)
    /\ Top.lower_map = <<>>

\* the entry that the call on top pushed (line 255)
OwnEntry ==
    <<Top.archive_path,
      IF ListingFailed(OPERAND_MERGED, Top.archive_path) THEN FAILED_STAT
      ELSE HandleStat(OPERAND_MERGED, Top.merged).st>>

\* a sink call was made for the directory d or for a path beneath it
EmittedAt(d) ==
    \E j \in 1..Len(calls) : calls[j].path = d \/ d \in Ancestors(calls[j].path)

\* C26: at the end of every _diff_dirs call, if the pending-directory stack is
\* non-empty its last element is the (archive_path, stat) entry that this call
\* pushed, and it is non-empty exactly when no sink call was made at or
\* beneath the directory: the pop removes the call's own entry and nothing else.
C26_PopsOwnEntry ==
    AtEnd =>
        /\ dir_pending # <<>> => dir_pending[Len(dir_pending)] = OwnEntry
        /\ dir_pending # <<>> <=> ~EmittedAt(Top.archive_path)

\* an unchanged subdirectory below an unchanged root, about to pop its entry
C26_Witness ==
    /\ AtEnd
    /\ Top.archive_path = "./a"
    /\ Len(dir_pending) = 2
    /\ dir_pending[2] = OwnEntry

(***************************************************************************)
(* Scoping of handles: a child is entered inside its parent's scope.       *)
(***************************************************************************)
\* the handle is entered, and holds its descriptor where the adapter opens one
Held(operand, path) ==
    /\ <<operand, path>> \in DOMAIN handles
    /\ handles[<<operand, path>>].entrances >= 1
    /\ Adapter(operand) = "file" => handles[<<operand, path>>].fd

\* the contexts that the calls in progress have entered and not yet exited
Entered == UNION {{f.stack[i] : i \in 1..Len(f.stack)} : f \in {frames[k] : k \in 1..Len(frames)}}

\* the descriptors opened and closed: the scandir iterator of a directory is
\* part of its handle and is closed with it
Descriptors == SelectSeq(oslog, LAMBDA e : e.res.kind # "scanner")

\* replaying opens and closes on a stack: every close releases the top
RECURSIVE Lifo(_, _, _)
Lifo(evs, i, held) ==
    IF i > Len(evs) THEN TRUE
    ELSE IF evs[i].ev = "open" THEN Lifo(evs, i + 1, Append(held, evs[i].res))
    ELSE /\ held # <<>>
         /\ held[Len(held)] = evs[i].res
         /\ Lifo(evs, i + 1, SubSeq(held, 1, Len(held) - 1))

C28_ReaderFromStart ==
    \A j \in 1..Len(calls) :
        calls[j].op = "write_file" =>
            /\ Exists(OPERAND_MERGED, NormName(calls[j].path))
            /\ calls[j].data = Info(OPERAND_MERGED, NormName(calls[j].path)).data

(***************************************************************************)
(* Re-entrant handles: _entrances and fd of ManagerBase.                   *)
(***************************************************************************)
\* how often the descriptor of the handle h was opened, and closed
FdEvents(h, ev) ==
    Cardinality({k \in 1..Len(oslog) :
                    /\ oslog[k].ev = ev
                    /\ oslog[k].res = Resource("fd", h[1], h[2], 0)})

\* C29: a live handle entered several times opens its descriptor once, on the
\* first enter, keeps it open through every inner exit and closes it on the
\* exit that balances the first enter: its descriptor is open exactly while
\* the entrance count is at least 1 (never, where the adapter opens none), and
\* it was opened once more than it was closed exactly then.
C29_ReentrantHandles ==
    \A h \in DOMAIN handles :
        /\ handles[h].entrances >= 0
        /\ handles[h].fd => handles[h].entrances >= 1
        /\ (Adapter(h[1]) = "file" /\ handles[h].entrances >= 1) => handles[h].fd
        /\ FdEvents(h, "open") - FdEvents(h, "close") = IF handles[h].fd THEN 1 ELSE 0
        /\ status \in {"returned", "raised"} => handles[h].entrances = 0

\* _insert_file has returned to _diff_files: the merged file was entered
\* twice and exited once, its descriptor was opened once and is still open,
\* and so is the root's, entered by diff() and by _diff_dirs
C29_Witness ==
    /\ Running("diff_files", "exit")
    /\ \E j \in 1..Len(calls) : calls[j].op = "write_file" /\ calls[j].path = "./a"
    /\ handles[<<OPERAND_MERGED, "/a">>].entrances = 1
    /\ handles[<<OPERAND_MERGED, "/a">>].fd
    /\ FdEvents(<<OPERAND_MERGED, "/a">>, "open") = 1
    /\ FdEvents(<<OPERAND_MERGED, "/a">>, "close") = 0
    /\ handles[<<OPERAND_MERGED, "/">>].entrances = 2
    /\ FdEvents(<<OPERAND_MERGED, "/">>, "open") = 1

(***************************************************************************)
(* diff() called again on the same Differ object.                          *)
(***************************************************************************)
\* differ.diff() once more after it returned: _dir_pending is the list that
\* the first call left, _open_dir makes new handles, the sink is the same
DiffAgain ==
    /\ run = 1
    /\ status = "returned"
    /\ run' = 2
    /\ prev_calls' = calls
    /\ status' = "init"
    /\ exc' = ""
    /\ frames' = <<>>
    /\ handles' = <<>>
    /\ UNCHANGED <<merged_dir, lower_dir, sink, options, bad_in, bad_out,
                   dir_pending, calls, backend, log, oslog>>

NextAgain ==
    \/ Next
    \/ DiffAgain

SpecAgain == InitFault /\ [][NextAgain]_vars

====
